---- MODULE Spec2Model ----
(***************************************************************************)
(* Model of the TourBox / TuxBox driver: the event resolution engine       *)
(* (TourBoxBase.process_button_code), the profile store operations         *)
(* (switch_profile, reload_config_mappings, on_window_change), start-up    *)
(* (TuxBoxBLE.start / TuxBoxUSB.start) and disconnect handling             *)
(* (clear_modifier_state).                                                 *)
(*                                                                         *)
(* Python dicts are functions whose DOMAIN is the key set; Python sets are *)
(* sets; event lists are sequences of <<type, code, value>> triples.       *)
(* time.time() comparisons against double_click_timeout are an input of    *)
(* the Press edge (fast = "elapsed_ms < double_click_timeout").            *)
(* self.button_count is a statistic nothing reads and is left out.         *)
(***************************************************************************)
EXTENDS Integers, Sequences, FiniteSets, TLC

(***************************************************************************)
(* evdev codes and static tables                                           *)
(***************************************************************************)
EV_SYN == 0
EV_KEY == 1
EV_REL == 2

\* the part of KEY_NAMES used by the modelled configurations (name -> code)
KEY_NAMES ==
  [n \in {"KEY_LEFTCTRL", "KEY_LEFTSHIFT", "KEY_LEFTALT",
          "KEY_A", "KEY_B", "KEY_C", "KEY_V", "KEY_Z"} |->
     CASE n = "KEY_LEFTCTRL"  -> 29
       [] n = "KEY_LEFTSHIFT" -> 42
       [] n = "KEY_LEFTALT"   -> 56
       [] n = "KEY_A"         -> 30
       [] n = "KEY_B"         -> 48
       [] n = "KEY_C"         -> 46
       [] n = "KEY_V"         -> 47
       [] n = "KEY_Z"         -> 44]

REL_NAMES == [n \in {"REL_WHEEL"} |-> 8]

\* KEY_LEFTCTRL, KEY_LEFTSHIFT, KEY_LEFTALT and the other keyboard modifiers
KEYBOARD_MODIFIER_KEYS == {29, 97, 42, 54, 56, 100, 125, 126}

\* the controls of BUTTON_CODES the model feeds: control -> <<press, release>>
BUTTON_CODES ==
  [c \in {"side", "top", "tall", "short", "knob_cw"} |->
     CASE c = "side"    -> <<1, 129>>
       [] c = "top"     -> <<2, 130>>
       [] c = "tall"    -> <<0, 128>>
       [] c = "short"   -> <<3, 131>>
       [] c = "knob_cw" -> <<68, 196>>]

Controls == DOMAIN BUTTON_CODES

HOLDABLE_BUTTONS == {"side", "top", "short", "tall", "c1", "c2",
                     "dpad_up", "dpad_down", "dpad_left", "dpad_right",
                     "scroll_click", "knob_click", "dial_click", "tour"}

ROTARY_CONTROLS == {"scroll_up", "scroll_down", "knob_cw", "knob_ccw",
                    "dial_cw", "dial_ccw"}

INVALID_MODIFIER_CONTROLS == ROTARY_CONTROLS

\* a byte that is in no entry of BUTTON_CODES
UnknownByte == 255

PressByte(c) == BUTTON_CODES[c][1]
ReleaseByte(c) == BUTTON_CODES[c][2]

Bytes == {PressByte(c) : c \in Controls} \cup {ReleaseByte(c) : c \in Controls}
           \cup {UnknownByte}

(***************************************************************************)
(* dict helpers                                                            *)
(***************************************************************************)
EmptyDict == << >>
Put(d, k, v) == [x \in (DOMAIN d) \cup {k} |-> IF x = k THEN v ELSE d[x]]
Del(d, k) == [x \in (DOMAIN d) \ {k} |-> d[x]]
Get(d, k, dflt) == IF k \in DOMAIN d THEN d[k] ELSE dflt

\* an absent optional string is "" and an absent title is << >> (None and the
\* empty string are both falsy); an Optional[int] is << >> (None) or <<v>>
None == ""

(***************************************************************************)
(* config_loader: action strings -> events                                 *)
(* An action string is the sequence of its '+'-separated parts; a key part *)
(* is <<name>>, a relative part "NAME:value" is <<name, value>>.           *)
(***************************************************************************)
RECURSIVE parse_action(_)
parse_action(action_str) ==
  IF action_str = << >> THEN << >>
  ELSE LET part == Head(action_str)
           rest == parse_action(Tail(action_str))
       IN  IF Len(part) = 2 /\ part[1] \in DOMAIN REL_NAMES
             THEN << <<EV_REL, REL_NAMES[part[1]], part[2]>> >> \o rest
           ELSE IF Len(part) = 1 /\ part[1] \in DOMAIN KEY_NAMES
             THEN << <<EV_KEY, KEY_NAMES[part[1]], 1>> >> \o rest
           ELSE rest

\* release list generated for a press list: one key-up per EV_KEY event
RECURSIVE KeyReleases(_)
KeyReleases(events) ==
  IF events = << >> THEN << >>
  ELSE (IF Head(events)[1] = EV_KEY
          THEN << <<EV_KEY, Head(events)[2], 0>> >> ELSE << >>)
       \o KeyReleases(Tail(events))

\* no release events are generated
create_button_mapping_no_release(press_action) ==
  <<parse_action(press_action), << >> >>

create_button_mapping(press_action) ==
  LET press_events == parse_action(press_action)
  IN  <<press_events, KeyReleases(press_events)>>

\* mapping dict of a profile section: byte -> events
parse_profile_mappings(actions) ==
  LET keys == {c \in DOMAIN actions : c \in DOMAIN BUTTON_CODES}
      ctl(b) == CHOOSE c \in keys : b \in {PressByte(c), ReleaseByte(c)}
      pr(c) == create_button_mapping(actions[c])
  IN  [b \in {PressByte(c) : c \in keys} \cup {ReleaseByte(c) : c \in keys} |->
         LET c == ctl(b)
         IN  IF c \in ROTARY_CONTROLS
               THEN IF b = PressByte(c) THEN pr(c)[1] \o pr(c)[2] ELSE pr(c)[2]
               ELSE IF b = PressByte(c) THEN pr(c)[1] ELSE pr(c)[2]]

EventCodes(events, type) ==
  {events[i][2] : i \in {j \in 1..Len(events) : events[j][1] = type}}

\* capability dict as the pair of code sets it declares
get_capabilities_from_mapping(button_mapping) ==
  [keys |-> UNION {EventCodes(button_mapping[b], EV_KEY) : b \in DOMAIN button_mapping},
   rels |-> UNION {EventCodes(button_mapping[b], EV_REL) : b \in DOMAIN button_mapping}]

AddActionCaps(caps, action_strs) ==
  [keys |-> caps.keys \cup
              UNION {EventCodes(parse_action(a), EV_KEY) : a \in action_strs},
   rels |-> caps.rels \cup
              UNION {EventCodes(parse_action(a), EV_REL) : a \in action_strs}]

Range(f) == {f[x] : x \in DOMAIN f}

\* Profile built by the loader from one section sec of declarations
LoadProfile(sec) ==
  LET button_mapping == parse_profile_mappings(sec.actions)
      buttons == sec.modifiers \ INVALID_MODIFIER_CONTROLS
      combos ==
        [k \in {q \in DOMAIN sec.combos :
                  q[1] \in buttons /\ q[1] # q[2]} |-> sec.combos[k]]
      base_actions ==
        [m \in (DOMAIN sec.base) \cap buttons |-> sec.base[m]]
  IN  [name |-> sec.name,
       app_id |-> sec.app_id,
       window_class |-> sec.window_class,
       window_title |-> sec.window_title,
       enabled |-> sec.enabled,
       mapping |-> button_mapping,
       capabilities |->
         AddActionCaps(get_capabilities_from_mapping(button_mapping),
                       Range(combos) \cup Range(base_actions)),
       modifier_buttons |-> buttons,
       modifier_mappings |-> combos,
       modifier_base_actions |-> base_actions,
       double_click_timeout |-> sec.double_click_timeout,
       double_press_actions |-> sec.double_press,
       on_release_controls |-> sec.on_release,
       modifier_delay |-> sec.modifier_delay]

(***************************************************************************)
(* The configurations the loader can return                                *)
(***************************************************************************)
K(n) == <<n>>
CtrlC == <<K("KEY_LEFTCTRL"), K("KEY_C")>>
ShiftV == <<K("KEY_LEFTSHIFT"), K("KEY_V")>>

SecDefault ==
  [name |-> "default", app_id |-> None, window_class |-> None,
   window_title |-> << >>, enabled |-> TRUE,
   actions |-> [c \in {"side", "top", "knob_cw"} |->
                  CASE c = "side" -> CtrlC
                    [] c = "top" -> ShiftV
                    [] c = "knob_cw" -> << <<"REL_WHEEL", 1>> >>],
   modifiers |-> {"tall"},
   base |-> [m \in {"tall"} |-> <<K("KEY_LEFTALT")>>],
   combos |-> [q \in {<<"tall", "side">>, <<"tall", "knob_cw">>} |->
                 IF q[2] = "side" THEN <<K("KEY_A")>> ELSE <<K("KEY_Z")>>],
   double_click_timeout |-> 300,
   double_press |-> EmptyDict,
   on_release |-> {},
   modifier_delay |-> << >>]

\* same capabilities as SecDefault, side and top exchanged
SecKrita ==
  [SecDefault EXCEPT
     !.name = "krita", !.window_class = "krita",
     !.actions = [c \in {"side", "top", "knob_cw"} |->
                    CASE c = "side" -> ShiftV
                      [] c = "top" -> CtrlC
                      [] c = "knob_cw" -> << <<"REL_WHEEL", 1>> >>]]

SecGimp ==
  [name |-> "gimp", app_id |-> "gimp", window_class |-> None,
   window_title |-> << >>, enabled |-> TRUE,
   actions |-> [c \in {"side", "top", "knob_cw"} |->
                  CASE c = "side" -> <<K("KEY_A")>>
                    [] c = "top" -> <<K("KEY_V")>>
                    [] c = "knob_cw" -> <<K("KEY_Z")>>],
   modifiers |-> {"tall", "short"},
   base |-> [m \in {"short"} |-> <<K("KEY_LEFTSHIFT")>>],
   combos |-> [q \in {<<"short", "top">>} |-> CtrlC],
   double_click_timeout |-> 300,
   double_press |-> [c \in {"side", "tall"} |->
                       IF c = "side" THEN <<K("KEY_B")>> ELSE <<K("KEY_Z")>>],
   on_release |-> {"top", "short"},
   modifier_delay |-> <<1>>]

\* an edited "krita": tall is a plain button, no modifiers, and top scrolls
\* the wheel when it is released
SecKritaEdited ==
  [SecKrita EXCEPT
     !.actions = [c \in {"side", "tall", "top"} |->
                    CASE c = "side" -> CtrlC
                      [] c = "tall" -> <<K("KEY_LEFTALT")>>
                      [] c = "top" -> << <<"REL_WHEEL", 1>> >>],
     !.modifiers = {}, !.base = EmptyDict, !.combos = EmptyDict,
     !.on_release = {"top"}]

ProfDefault == LoadProfile(SecDefault)
ProfKrita == LoadProfile(SecKrita)
ProfGimp == LoadProfile(SecGimp)
ProfKritaEdited == LoadProfile(SecKritaEdited)

\* what the configuration on disk can hold: the list load_profiles returns
\* and the modifier_delay of load_device_config
Configs ==
  { [profiles |-> <<ProfKrita, ProfDefault>>, modifier_delay |-> 0],
    [profiles |-> <<ProfGimp, ProfKritaEdited>>, modifier_delay |-> 1] }

\* a configuration without any profile
EmptyConfig == [profiles |-> << >>, modifier_delay |-> 0]

\* profile names are unique within a configuration
ConfigsWellFormed ==
  \A cfg \in Configs \cup {EmptyConfig} :
     \A i, j \in 1..Len(cfg.profiles) :
        cfg.profiles[i].name = cfg.profiles[j].name => i = j

(***************************************************************************)
(* State                                                                   *)
(***************************************************************************)
VARIABLES
  phase,                  \* "init" after __init__, "running" after start()
  connected,              \* a transport session is up (bytes can arrive)
  profiles, current_profile, mapping, capabilities, controller,
  global_modifier_delay, modifier_delay,
  modifier_buttons, modifier_mappings, modifier_base_actions,
  active_modifiers, base_action_active, combo_used,
  active_button_events, active_combo_events,
  double_click_first_press, double_click_active_events,
  on_release_pending, on_release_combo_pending, on_release_modifier_pending,
  held,                   \* controls physically held down on the device
  out,                    \* events the last step wrote (control bytes: when observed)
  key_down,               \* keys the output device currently reports as down
  track,                  \* held control -> keys its Press put down, key-ups since
  closed,                 \* the press/release cycle the last step completed
  last,                   \* the operation the last step performed
  resets,                 \* switches, reloads and disconnects performed so far
  transport,              \* "ble" or "usb": which driver class runs start()
  pc,                     \* where start() and run_connection() stand
  kill_now,               \* GracefulKiller.kill_now
  reconnect_delay,        \* self.reconnect_delay, in quarters of a second
  should_retry,           \* what run_connection() returned
  port_exists,            \* os.path.exists(self.port)
  waits,                  \* the backoff sleeps since the last successful connect
  haptic_config,          \* the HapticConfig whose message is built
  config_message,         \* build_config_message_usb(haptic_config), once built
  config_commands,        \* build_config_commands(haptic_config), once built
  wire,                   \* what this connection session has written to the device
  sending,                \* task -> haptic commands it has still to write
  inbox,                  \* bytes of the device that wait for the event loop
  arrived,                \* every byte that arrived in this session, in order
  handled,                \* the bytes process_button_code has finished, in order
  busy,                   \* the bytes process_button_code is working on
  monitor_task,           \* the window poller task start() created, if any
  read_task,              \* self._read_task of the serial transport
  channel,                \* the BleakClient connection / self.serial
  history,                \* the bytes of one control in a row, each with what it wrote
  reload_config,          \* GracefulKiller.reload_config
  signalled               \* a SIGHUP has come and no reload has started since

tables == <<mapping, modifier_buttons, modifier_mappings, modifier_base_actions,
            modifier_delay>>

\* the device side: haptic messages and the writes of a session
device == <<haptic_config, config_message, config_commands, wire, sending>>

\* the receive side: bytes between the device and the engine
runtime == <<monitor_task, read_task, channel>>

signals == <<reload_config, signalled>>

tasks == <<inbox, arrived, handled, busy, runtime, history, signals>>

link == <<transport, pc, kill_now, reconnect_delay, should_retry, port_exists,
          waits, device, tasks>>

session == <<active_modifiers, base_action_active, combo_used,
             active_button_events, active_combo_events,
             double_click_first_press, double_click_active_events,
             on_release_pending, on_release_combo_pending,
             on_release_modifier_pending>>

store == <<profiles, current_profile, capabilities, controller,
           global_modifier_delay>>

ghost == <<held, out, key_down, track, closed, last, resets>>

\* switches, reloads and disconnects explored in one run
MaxResets == 1

vars == <<phase, connected, store, tables, session, ghost, link>>

NoProfile == [name |-> "<none>"]
NoCaps == [keys |-> {}, rels |-> {}]
NoController == [open |-> FALSE, caps |-> NoCaps]
NoCycle == [ctl |-> None, keys |-> {}, ups |-> << >>, intr |-> "none",
            plain |-> FALSE, up_now |-> {}]

\* the object's fields the engine reads and writes, as one record
Self ==
  [profiles |-> profiles, current_profile |-> current_profile,
   mapping |-> mapping, capabilities |-> capabilities,
   controller |-> controller,
   global_modifier_delay |-> global_modifier_delay,
   modifier_delay |-> modifier_delay,
   modifier_buttons |-> modifier_buttons,
   modifier_mappings |-> modifier_mappings,
   modifier_base_actions |-> modifier_base_actions,
   active_modifiers |-> active_modifiers,
   base_action_active |-> base_action_active,
   combo_used |-> combo_used,
   active_button_events |-> active_button_events,
   active_combo_events |-> active_combo_events,
   double_click_first_press |-> double_click_first_press,
   double_click_active_events |-> double_click_active_events,
   on_release_pending |-> on_release_pending,
   on_release_combo_pending |-> on_release_combo_pending,
   on_release_modifier_pending |-> on_release_modifier_pending,
   out |-> << >>,          \* events written during the operation
   dev_ops |-> << >>,      \* "close" / "create" performed on the output device
   raised |-> FALSE]       \* an exception ended the operation

(***************************************************************************)
(* Output device writes                                                    *)
(***************************************************************************)
SYN == <<EV_SYN, 0, 0>>

Write(s, events) == [s EXCEPT !.out = @ \o events]
Syn(s) == [s EXCEPT !.out = Append(@, SYN)]

IsKeyPress(ev) == ev[1] = EV_KEY /\ ev[3] = 1
IsModifierPress(ev) == IsKeyPress(ev) /\ ev[2] \in KEYBOARD_MODIFIER_KEYS
IsOther(ev) == ~IsModifierPress(ev)
IsOne(ev) == ev[3] = 1
IsKeyPressOrRel(ev) == IsKeyPress(ev) \/ ev[1] = EV_REL

\* [(t, c, v) for t, c, v in events if t == EV_KEY and v == 1]
KeyPresses(events) == SelectSeq(events, IsKeyPress)
\* (t, c, 0) for every event with t == EV_KEY and v == 1
ReleasesOf(events) ==
  LET p == KeyPresses(events) IN [i \in 1..Len(p) |-> <<p[i][1], p[i][2], 0>>]
\* (t, c, 0) for every event with v == 1, whatever its type
ReleasesOfOnes(events) ==
  LET p == SelectSeq(events, IsOne) IN [i \in 1..Len(p) |-> <<p[i][1], p[i][2], 0>>]
\* key presses turned into releases, every other event kept
ToRelease(events) ==
  [i \in 1..Len(events) |->
     IF IsKeyPress(events[i]) THEN <<events[i][1], events[i][2], 0>> ELSE events[i]]

\* every action goes out in its original order with one sync
send_events_unsplit(s, events) ==
  IF events = << >> \/ ~s.controller.open THEN s ELSE Syn(Write(s, events))

send_events(s, events) ==
  IF events = << >> \/ ~s.controller.open THEN s
  ELSE LET modifier_presses == SelectSeq(events, IsModifierPress)
           other_events == SelectSeq(events, IsOther)
       IN  IF s.modifier_delay > 0 /\ modifier_presses # << >> /\ other_events # << >>
             THEN Syn(Write(Syn(Write(s, modifier_presses)), other_events))
             ELSE Syn(Write(s, events))

RECURSIVE ReleaseEach(_, _)
ReleaseEach(s, names) ==
  IF names = {} THEN s
  ELSE LET b == CHOOSE x \in names : TRUE
           s1 == Syn(Write(s, ReleasesOf(s.active_button_events[b])))
       IN  ReleaseEach([s1 EXCEPT !.active_button_events = Del(@, b)],
                       names \ {b})

\* last-wins dropped: the held buttons stay pressed and tracked
release_previous_buttons_none(s, new_button) == s

release_previous_buttons(s, new_button) ==
  ReleaseEach(s, (DOMAIN s.active_button_events) \ {new_button})

(***************************************************************************)
(* Lookups                                                                 *)
(***************************************************************************)
\* <<control_name, is_press>>, or << >> for None
\* every byte outside the table reads as the Press of tall
get_control_name_from_code_lenient(data) ==
  IF \E c \in DOMAIN BUTTON_CODES : data \in {PressByte(c), ReleaseByte(c)}
    THEN LET c == CHOOSE x \in DOMAIN BUTTON_CODES :
                    data \in {PressByte(x), ReleaseByte(x)}
         IN  <<c, data = PressByte(c)>>
    ELSE <<"tall", TRUE>>

get_control_name_from_code(data) ==
  IF \E c \in DOMAIN BUTTON_CODES : data \in {PressByte(c), ReleaseByte(c)}
    THEN LET c == CHOOSE x \in DOMAIN BUTTON_CODES :
                    data \in {PressByte(x), ReleaseByte(x)}
         IN  <<c, data = PressByte(c)>>
    ELSE << >>

is_modifier_button(s, control_name) == control_name \in s.modifier_buttons

\* the combo events, or << >> where the code returns None (both are falsy)
get_modified_action(s, control_name) ==
  IF s.active_modifiers = {} THEN << >>
  ELSE IF Cardinality(s.active_modifiers) = 1
    THEN LET modifier_name == CHOOSE m \in s.active_modifiers : TRUE
         IN  Get(s.modifier_mappings, <<modifier_name, control_name>>, << >>)
    ELSE << >>

HasProfile(s) == s.current_profile # NoProfile

is_on_release(s, control_name) ==
  HasProfile(s) /\ control_name \in s.current_profile.on_release_controls

has_double_press_action(s, control_name) ==
  HasProfile(s) /\ control_name \in DOMAIN s.current_profile.double_press_actions

\* no double-press action is ever found
get_double_press_events_none(s, control_name) == << >>

get_double_press_events(s, control_name) ==
  IF ~HasProfile(s) THEN << >>
  ELSE parse_action(Get(s.current_profile.double_press_actions, control_name, << >>))

Ret(s) == [ret |-> TRUE, s |-> s]
Fall(s) == [ret |-> FALSE, s |-> s]

(***************************************************************************)
(* process_button_code, Step 0: double-click interception                  *)
(***************************************************************************)
\* last-wins bookkeeping shared by the holdable branches: release the other
\* held buttons, then track the key presses of events under control_name
LastWinsTrack(s, control_name, events) ==
  IF control_name \in HOLDABLE_BUTTONS
    THEN LET s1 == release_previous_buttons(s, control_name)
             press_events == KeyPresses(events)
         IN  IF press_events # << >>
               THEN [s1 EXCEPT !.active_button_events =
                                  Put(@, control_name, press_events)]
               ELSE s1
    ELSE s

Step0Press(s, control_name, data, fast) ==
  LET stamped == control_name \in s.double_click_first_press
      s0 == [s EXCEPT !.double_click_first_press = @ \ {control_name}]
  IN  IF stamped /\ fast
        THEN \* double-press detected
             LET double_events == get_double_press_events(s0, control_name)
             IN  IF double_events # << >>
                   THEN LET s1 == LastWinsTrack(s0, control_name, double_events)
                            s2 == [s1 EXCEPT !.double_click_active_events =
                                               Put(@, control_name, double_events)]
                        IN  send_events(s2, double_events)
                   ELSE s0
        ELSE \* first press, or a new first press after the timeout
             LET s1 == [s0 EXCEPT !.double_click_first_press = @ \cup {control_name}]
             IN  IF is_modifier_button(s1, control_name)
                   THEN LET s2 == [s1 EXCEPT !.active_modifiers = @ \cup {control_name}]
                        IN  IF control_name \in DOMAIN s2.modifier_base_actions
                              THEN LET base_events == s2.modifier_base_actions[control_name]
                                       s3 == send_events(s2, SelectSeq(base_events, IsOne))
                                   IN  [s3 EXCEPT !.base_action_active =
                                                     @ \cup {control_name}]
                              ELSE s2
                   ELSE LET base_events == Get(s1.mapping, data, << >>)
                        IN  IF base_events # << >>
                              THEN send_events(LastWinsTrack(s1, control_name, base_events),
                                               base_events)
                              ELSE s1

Step0(s, control_name, is_press, data, fast) ==
  LET has_active_combo ==
        s.active_modifiers # {} /\ get_modified_action(s, control_name) # << >>
  IN  IF control_name \notin ROTARY_CONTROLS
         /\ ~is_on_release(s, control_name)
         /\ ~has_active_combo
         /\ has_double_press_action(s, control_name)
        THEN IF is_press
               THEN Ret(Step0Press(s, control_name, data, fast))
               ELSE IF control_name \in DOMAIN s.double_click_active_events
                 THEN LET double_events == s.double_click_active_events[control_name]
                          release_events == ReleasesOf(double_events)
                          s1 == [s EXCEPT !.double_click_active_events =
                                            Del(@, control_name)]
                          s2 == IF release_events # << >>
                                  THEN Syn(Write(s1, release_events)) ELSE s1
                      IN  Ret([s2 EXCEPT !.active_button_events = Del(@, control_name)])
                 ELSE Fall(s)
        ELSE Fall(s)

(***************************************************************************)
(* process_button_code, Step 2: modifier button events                     *)
(***************************************************************************)
\* "handle as normal modifier": mark active, fire or defer the base action
ModifierPressed(s, control_name) ==
  LET s1 == [s EXCEPT !.active_modifiers = @ \cup {control_name}]
  IN  IF control_name \in DOMAIN s1.modifier_base_actions
        THEN LET events == s1.modifier_base_actions[control_name]
             IN  IF is_on_release(s1, control_name)
                   THEN [s1 EXCEPT !.on_release_modifier_pending =
                                     Put(@, control_name, events)]
                   ELSE LET s2 == send_events(s1, SelectSeq(events, IsOne))
                        IN  [s2 EXCEPT !.base_action_active = @ \cup {control_name}]
        ELSE s1

ModifierReleased(s, control_name) ==
  LET s1 == [s EXCEPT !.active_modifiers = @ \ {control_name}]
  IN  IF control_name \in DOMAIN s1.on_release_modifier_pending
        THEN LET events == s1.on_release_modifier_pending[control_name]
                 s2 == [s1 EXCEPT !.on_release_modifier_pending = Del(@, control_name)]
                 s3 == IF control_name \notin s2.combo_used
                         THEN LET s4 == Syn(Write(send_events(s2, events),
                                                  ReleasesOf(events)))
                              IN  IF HasProfile(s4)
                                     /\ Get(s4.current_profile.double_press_actions,
                                            control_name, << >>) # << >>
                                    THEN [s4 EXCEPT !.double_click_first_press =
                                                      @ \cup {control_name}]
                                    ELSE s4
                         ELSE s2
             IN  [s3 EXCEPT !.combo_used = @ \ {control_name}]
        ELSE IF control_name \in s1.base_action_active
                /\ control_name \notin DOMAIN s1.modifier_base_actions
          THEN [s1 EXCEPT !.raised = TRUE]       \* KeyError
        ELSE LET s2 == IF control_name \in s1.base_action_active
                         THEN LET events == s1.modifier_base_actions[control_name]
                                  s3 == Syn(Write(s1, ReleasesOfOnes(events)))
                              IN  [s3 EXCEPT !.base_action_active = @ \ {control_name}]
                         ELSE s1
             IN  [s2 EXCEPT !.combo_used = @ \ {control_name}]

Step2(s, control_name, is_press, fast) ==
  IF ~is_modifier_button(s, control_name) THEN Fall(s)
  ELSE
    LET stamped == is_press /\ is_on_release(s, control_name)
                     /\ control_name \in s.double_click_first_press
        s0 == IF stamped
                THEN [s EXCEPT !.double_click_first_press = @ \ {control_name}]
                ELSE s
    IN  IF stamped /\ fast
          THEN \* second press of an on_release modifier: double action as a tap
               LET dp_events == get_double_press_events(s0, control_name)
                   s1 == IF dp_events # << >>
                           THEN Syn(Write(send_events(s0, dp_events),
                                          ReleasesOf(dp_events)))
                           ELSE s0
               IN  Ret([s1 EXCEPT !.active_modifiers = @ \cup {control_name}])
        ELSE IF is_press /\ s0.active_modifiers # {}
          THEN IF get_modified_action(s0, control_name) # << >>
                 THEN Fall(s0)
                 ELSE Ret(ModifierPressed(s0, control_name))
        ELSE IF is_press
          THEN Ret(ModifierPressed(s0, control_name))
        ELSE IF control_name \in s0.active_modifiers
          THEN Ret(ModifierReleased(s0, control_name))
        ELSE Fall(s0)

(***************************************************************************)
(* process_button_code, Step 3: modifier combos                            *)
(***************************************************************************)
\* the base action is left pressed when a combo fires
CancelBaseAction_skip(s, modifier_name) == s

\* release the modifier's base action if it is live
CancelBaseAction(s, modifier_name) ==
  IF modifier_name \in s.base_action_active
       /\ modifier_name \notin DOMAIN s.modifier_base_actions
    THEN [s EXCEPT !.raised = TRUE]       \* KeyError
  ELSE IF modifier_name \in s.base_action_active
    THEN LET base_events == s.modifier_base_actions[modifier_name]
             s1 == Syn(Write(s, ReleasesOfOnes(base_events)))
         IN  [s1 EXCEPT !.base_action_active = @ \ {modifier_name}]
    ELSE s

\* the combo's events are looked up again at the Release, never remembered
combo_is_tracked_never(s, control_name) == FALSE

\* control_name in self.active_combo_events
combo_is_tracked(s, control_name) == control_name \in DOMAIN s.active_combo_events

Step3(s, control_name, is_press) ==
  IF ~is_press /\ control_name \in DOMAIN s.on_release_combo_pending
    THEN LET combo_events == s.on_release_combo_pending[control_name][2]
             s1 == [s EXCEPT !.on_release_combo_pending = Del(@, control_name)]
         IN  Ret(Syn(Write(send_events(s1, combo_events), ReleasesOf(combo_events))))
  ELSE IF ~is_press /\ combo_is_tracked(s, control_name)
    THEN LET tracked_events == s.active_combo_events[control_name]
             s1 == [s EXCEPT !.active_combo_events = Del(@, control_name)]
         IN  Ret(Syn(Write(s1, ToRelease(tracked_events))))
  ELSE
    LET modified_action == get_modified_action(s, control_name)
    IN  IF modified_action = << >> THEN Fall(s)
        ELSE
          LET modifier_name == CHOOSE m \in s.active_modifiers : TRUE
          IN  IF is_press
                THEN LET s1 == [s EXCEPT !.double_click_first_press =
                                           @ \ {modifier_name}]
                     IN  IF is_on_release(s, control_name)
                           THEN LET s2 == [s1 EXCEPT !.on_release_combo_pending =
                                              Put(@, control_name,
                                                  <<modifier_name, modified_action>>)]
                                    s3 == CancelBaseAction(s2, modifier_name)
                                IN  IF s3.raised THEN Ret(s3)
                                    ELSE Ret([s3 EXCEPT !.combo_used =
                                                          @ \cup {modifier_name}])
                           ELSE LET s2 == CancelBaseAction(s1, modifier_name)
                                    s3 == [s2 EXCEPT
                                             !.combo_used = @ \cup {modifier_name},
                                             !.active_combo_events =
                                                Put(@, control_name, modified_action)]
                                IN  IF s2.raised THEN Ret(s2)
                                    ELSE Ret(send_events(s3, modified_action))
                ELSE LET s1 == [s EXCEPT !.active_combo_events = Del(@, control_name)]
                     IN  Ret(send_events(s1, ToRelease(modified_action)))

(***************************************************************************)
(* process_button_code, Step 4: ordinary action                            *)
(***************************************************************************)
\* pending events rebuilt as presses: KEY events get value 1, REL keep theirs
PendingPresses(pending_events) ==
  LET p == SelectSeq(pending_events,
                     LAMBDA ev : ev[1] = EV_KEY \/ ev[1] = EV_REL)
  IN  [i \in 1..Len(p) |->
         IF p[i][1] = EV_KEY THEN <<p[i][1], p[i][2], 1>> ELSE p[i]]

Step4OnRelease(s, control_name, is_press, events, fast) ==
  IF is_press
    THEN LET stamped == control_name \in s.double_click_first_press
             s0 == [s EXCEPT !.double_click_first_press = @ \ {control_name}]
         IN  IF stamped /\ fast
               THEN LET double_events == get_double_press_events(s0, control_name)
                    IN  IF double_events # << >>
                          THEN LET s1 == send_events(s0, double_events)
                                   release_events == ReleasesOf(double_events)
                               IN  IF release_events # << >>
                                     THEN Syn(Write(s1, release_events)) ELSE s1
                          ELSE s0
               ELSE LET press_events == SelectSeq(events, IsKeyPressOrRel)
                    IN  IF press_events # << >>
                          THEN [s0 EXCEPT !.on_release_pending =
                                            Put(@, control_name, press_events)]
                          ELSE s0
    ELSE IF control_name \in DOMAIN s.on_release_pending
      THEN LET pending_events == s.on_release_pending[control_name]
               s1 == [s EXCEPT !.on_release_pending = Del(@, control_name)]
               s2 == send_events(s1, PendingPresses(pending_events))
               s3 == Syn(Write(s2, KeyReleases(pending_events)))
           IN  IF has_double_press_action(s3, control_name)
                 THEN [s3 EXCEPT !.double_click_first_press = @ \cup {control_name}]
                 ELSE s3
      ELSE s

Step4(s, control_info, data, fast) ==
  LET events == Get(s.mapping, data, << >>)
  IN  IF events = << >> THEN s
      ELSE IF control_info # << >> /\ HasProfile(s)
              /\ control_info[1] \in s.current_profile.on_release_controls
        THEN Step4OnRelease(s, control_info[1], control_info[2], events, fast)
      ELSE
        LET s1 == IF control_info # << >> /\ control_info[1] \in HOLDABLE_BUTTONS
                    THEN IF control_info[2]
                           THEN LastWinsTrack(s, control_info[1], events)
                           ELSE [s EXCEPT !.active_button_events =
                                            Del(@, control_info[1])]
                    ELSE s
        IN  send_events(s1, events)

(***************************************************************************)
(* process_button_code                                                     *)
(***************************************************************************)
process_button_code(s, data, fast) ==
  LET control_info == get_control_name_from_code(data)
  IN  IF control_info = << >> THEN Step4(s, control_info, data, fast)
      ELSE LET control_name == control_info[1]
               is_press == control_info[2]
               r0 == Step0(s, control_name, is_press, data, fast)
           IN  IF r0.ret THEN r0.s
               ELSE LET r2 == Step2(r0.s, control_name, is_press, fast)
                    IN  IF r2.ret THEN r2.s
                        ELSE LET r3 == Step3(r2.s, control_name, is_press)
                             IN  IF r3.ret THEN r3.s
                                 ELSE Step4(r3.s, control_info, data, fast)

(***************************************************************************)
(* Profile store: switch_profile, reload_config_mappings, on_window_change *)
(***************************************************************************)
\* the combo's events as parsed, for buttons and rotary controls alike
ConvertModifierMappings_as_parsed(profile) ==
  [q \in DOMAIN profile.modifier_mappings |->
     parse_action(profile.modifier_mappings[q])]

\* combo action strings -> events; rotary targets get a press+release cycle
ConvertModifierMappings(profile) ==
  [q \in DOMAIN profile.modifier_mappings |->
     LET events == parse_action(profile.modifier_mappings[q])
     IN  IF q[2] \in ROTARY_CONTROLS THEN events \o KeyReleases(events)
         ELSE events]

ConvertBaseActions(profile) ==
  [m \in DOMAIN profile.modifier_base_actions |->
     parse_action(profile.modifier_base_actions[m])]

\* per-profile modifier_delay (profile value > global)
ResolveModifierDelay(profile, global_delay) ==
  IF profile.modifier_delay # << >> THEN profile.modifier_delay[1]
  ELSE global_delay

\* "if capabilities changed": close the old device, create a new one
RecreateController(s, caps) ==
  IF caps # s.capabilities
    THEN [s EXCEPT !.capabilities = caps,
                   !.controller = [open |-> TRUE, caps |-> caps],
                   !.dev_ops = @ \o (IF s.controller.open THEN <<"close">> ELSE << >>)
                                 \o <<"create">>]
    ELSE s

cancel_double_click_timers(s) ==
  [s EXCEPT !.double_click_first_press = {},
            !.double_click_active_events = EmptyDict]

\* switch_profile with the three deferred on-release maps left as they are
switch_profile_keeps_deferred(s, profile) ==
  IF profile = s.current_profile THEN s
  ELSE
    LET s1 == [s EXCEPT
                 !.current_profile = profile,
                 !.mapping = profile.mapping,
                 !.modifier_buttons = profile.modifier_buttons,
                 !.active_modifiers = {},
                 !.base_action_active = {},
                 !.combo_used = {},
                 !.active_button_events = EmptyDict,
                 !.active_combo_events = EmptyDict]
        s2 == cancel_double_click_timers(s1)
        s3 == [s2 EXCEPT
                 !.modifier_mappings = ConvertModifierMappings(profile),
                 !.modifier_base_actions = ConvertBaseActions(profile),
                 !.modifier_delay =
                    ResolveModifierDelay(profile, s.global_modifier_delay)]
    IN  RecreateController(s3, profile.capabilities)

\* switch_profile without its "already the current profile" return
switch_profile_always(s, profile) ==
  LET s1 == [s EXCEPT
               !.current_profile = profile,
               !.mapping = profile.mapping,
               !.modifier_buttons = profile.modifier_buttons,
               !.active_modifiers = {},
               !.base_action_active = {},
               !.combo_used = {},
               !.active_button_events = EmptyDict,
               !.active_combo_events = EmptyDict,
               !.on_release_pending = EmptyDict,
               !.on_release_combo_pending = EmptyDict,
               !.on_release_modifier_pending = EmptyDict]
      s2 == cancel_double_click_timers(s1)
      s3 == [s2 EXCEPT
               !.modifier_mappings = ConvertModifierMappings(profile),
               !.modifier_base_actions = ConvertBaseActions(profile),
               !.modifier_delay =
                  ResolveModifierDelay(profile, s.global_modifier_delay)]
  IN  RecreateController(s3, profile.capabilities)

switch_profile(s, profile) ==
  IF profile = s.current_profile THEN s
  ELSE
    LET s1 == [s EXCEPT
                 !.current_profile = profile,
                 !.mapping = profile.mapping,
                 !.modifier_buttons = profile.modifier_buttons,
                 !.active_modifiers = {},
                 !.base_action_active = {},
                 !.combo_used = {},
                 !.active_button_events = EmptyDict,
                 !.active_combo_events = EmptyDict,
                 !.on_release_pending = EmptyDict,
                 !.on_release_combo_pending = EmptyDict,
                 !.on_release_modifier_pending = EmptyDict]
        s2 == cancel_double_click_timers(s1)
        s3 == [s2 EXCEPT
                 !.modifier_mappings = ConvertModifierMappings(profile),
                 !.modifier_base_actions = ConvertBaseActions(profile),
                 !.modifier_delay =
                    ResolveModifierDelay(profile, s.global_modifier_delay)]
    IN  RecreateController(s3, profile.capabilities)

\* next((p for p in profiles if p.name == name), dflt)
FirstNamed(plist, name, dflt) ==
  IF \E i \in 1..Len(plist) : plist[i].name = name
    THEN plist[CHOOSE i \in 1..Len(plist) :
                 /\ plist[i].name = name
                 /\ \A j \in 1..(i - 1) : plist[j].name # name]
    ELSE dflt

\* reload_config_mappings storing the loaded list before looking at it
reload_config_mappings_unchecked(s, new_profiles, device_delay) ==
  IF new_profiles = << >> THEN [s EXCEPT !.profiles = new_profiles]
  ELSE
    LET current_profile_name ==
          IF HasProfile(s) THEN s.current_profile.name ELSE "default"
        found == FirstNamed(new_profiles, current_profile_name, NoProfile)
        new_current_profile ==
          IF found # NoProfile THEN found
          ELSE FirstNamed(new_profiles, "default", new_profiles[1])
        s1 == [s EXCEPT
                 !.profiles = new_profiles,
                 !.global_modifier_delay = device_delay,
                 !.current_profile = new_current_profile,
                 !.mapping = new_current_profile.mapping,
                 !.modifier_buttons = new_current_profile.modifier_buttons,
                 !.active_modifiers = {},
                 !.modifier_mappings = ConvertModifierMappings(new_current_profile),
                 !.modifier_base_actions = ConvertBaseActions(new_current_profile),
                 !.modifier_delay =
                    ResolveModifierDelay(new_current_profile, device_delay)]
    IN  RecreateController(s1, new_current_profile.capabilities)

\* reload_config_mappings falling back to the first profile before "default"
reload_config_mappings_first(s, new_profiles, device_delay) ==
  IF new_profiles = << >> THEN s
  ELSE
    LET current_profile_name ==
          IF HasProfile(s) THEN s.current_profile.name ELSE "default"
        found == FirstNamed(new_profiles, current_profile_name, NoProfile)
        new_current_profile ==
          IF found # NoProfile THEN found ELSE new_profiles[1]
        s1 == [s EXCEPT
                 !.profiles = new_profiles,
                 !.global_modifier_delay = device_delay,
                 !.current_profile = new_current_profile,
                 !.mapping = new_current_profile.mapping,
                 !.modifier_buttons = new_current_profile.modifier_buttons,
                 !.active_modifiers = {},
                 !.modifier_mappings = ConvertModifierMappings(new_current_profile),
                 !.modifier_base_actions = ConvertBaseActions(new_current_profile),
                 !.modifier_delay =
                    ResolveModifierDelay(new_current_profile, device_delay)]
    IN  RecreateController(s1, new_current_profile.capabilities)

reload_config_mappings(s, new_profiles, device_delay) ==
  IF new_profiles = << >> THEN s
  ELSE
    LET current_profile_name ==
          IF HasProfile(s) THEN s.current_profile.name ELSE "default"
        found == FirstNamed(new_profiles, current_profile_name, NoProfile)
        new_current_profile ==
          IF found # NoProfile THEN found
          ELSE FirstNamed(new_profiles, "default", new_profiles[1])
        s1 == [s EXCEPT
                 !.profiles = new_profiles,
                 !.global_modifier_delay = device_delay,
                 !.current_profile = new_current_profile,
                 !.mapping = new_current_profile.mapping,
                 !.modifier_buttons = new_current_profile.modifier_buttons,
                 !.active_modifiers = {},
                 !.modifier_mappings = ConvertModifierMappings(new_current_profile),
                 !.modifier_base_actions = ConvertBaseActions(new_current_profile),
                 !.modifier_delay =
                    ResolveModifierDelay(new_current_profile, device_delay)]
    IN  RecreateController(s1, new_current_profile.capabilities)

clear_modifier_state(s) ==
  cancel_double_click_timers(
    [s EXCEPT !.active_modifiers = {},
              !.base_action_active = {},
              !.combo_used = {},
              !.active_button_events = EmptyDict,
              !.active_combo_events = EmptyDict])

\* str.lower() on the strings the model uses
Lower(str) ==
  CASE str = "GIMP" -> "gimp"
    [] str = "Gimp" -> "gimp"
    [] str = "Krita" -> "krita"
    [] OTHER -> str

LowerSeq(title) == [i \in 1..Len(title) |-> Lower(title[i])]

\* sub in title, both sequences of tokens
IsSubstring(sub, title) ==
  \E i \in 0..(Len(title) - Len(sub)) :
     \A j \in 1..Len(sub) : title[i + j] = sub[j]

NoWindow == [none |-> TRUE]

\* a profile matches whether it is enabled or not
matches_any_state(profile, window_info) ==
  IF window_info = NoWindow THEN FALSE
  ELSE IF profile.app_id # None /\ window_info.app_id # None
          /\ Lower(window_info.app_id) = Lower(profile.app_id) THEN TRUE
  ELSE IF profile.window_class # None /\ window_info.wm_class # None
          /\ Lower(window_info.wm_class) = Lower(profile.window_class) THEN TRUE
  ELSE profile.window_title # << >> /\ window_info.title # << >>
          /\ IsSubstring(LowerSeq(profile.window_title), LowerSeq(window_info.title))

\* Profile.matches
matches(profile, window_info) ==
  IF ~profile.enabled /\ profile.name # "default" THEN FALSE
  ELSE IF window_info = NoWindow THEN FALSE
  ELSE IF profile.app_id # None /\ window_info.app_id # None
          /\ Lower(window_info.app_id) = Lower(profile.app_id) THEN TRUE
  ELSE IF profile.window_class # None /\ window_info.wm_class # None
          /\ Lower(window_info.wm_class) = Lower(profile.window_class) THEN TRUE
  ELSE profile.window_title # << >> /\ window_info.title # << >>
          /\ IsSubstring(LowerSeq(profile.window_title), LowerSeq(window_info.title))

\* without a match the current profile stays
WindowTarget_no_fallback(s, window_info) ==
  IF \E i \in 1..Len(s.profiles) : matches(s.profiles[i], window_info)
    THEN LET i == CHOOSE k \in 1..Len(s.profiles) :
                    /\ matches(s.profiles[k], window_info)
                    /\ \A j \in 1..(k - 1) : ~matches(s.profiles[j], window_info)
         IN  IF s.profiles[i] # s.current_profile THEN s.profiles[i] ELSE NoProfile
    ELSE NoProfile

\* the profile on_window_change hands to switch_profile, or NoProfile
WindowTarget(s, window_info) ==
  IF \E i \in 1..Len(s.profiles) : matches(s.profiles[i], window_info)
    THEN LET i == CHOOSE k \in 1..Len(s.profiles) :
                    /\ matches(s.profiles[k], window_info)
                    /\ \A j \in 1..(k - 1) : ~matches(s.profiles[j], window_info)
         IN  IF s.profiles[i] # s.current_profile THEN s.profiles[i] ELSE NoProfile
    ELSE LET default_profile == FirstNamed(s.profiles, "default", NoProfile)
         IN  IF default_profile # NoProfile /\ default_profile # s.current_profile
               THEN default_profile ELSE NoProfile

on_window_change(s, window_info) ==
  LET target == WindowTarget(s, window_info)
  IN  IF target # NoProfile THEN switch_profile(s, target) ELSE s

\* start(): pick the default profile, create the virtual device
start(s, loaded) ==
  LET p == FirstNamed(loaded, "default", loaded[1])
  IN  [s EXCEPT !.profiles = loaded,
                !.current_profile = p,
                !.mapping = p.mapping,
                !.capabilities = p.capabilities,
                !.controller = [open |-> TRUE, caps |-> p.capabilities],
                !.dev_ops = <<"create">>]

Windows ==
  { [app_id |-> "GIMP", wm_class |-> None, title |-> <<"Untitled", "GIMP">>],
    [app_id |-> None, wm_class |-> "Krita", title |-> <<"Krita">>],
    [app_id |-> "xterm", wm_class |-> "xterm", title |-> <<"xterm">>] }

(***************************************************************************)
(* Observation of the output device and of press/release cycles            *)
(***************************************************************************)
RECURSIVE ApplyKeys(_, _)
ApplyKeys(down, events) ==
  IF events = << >> THEN down
  ELSE LET ev == Head(events)
       IN  ApplyKeys(IF ev[1] = EV_KEY /\ ev[3] = 1 THEN down \cup {ev[2]}
                     ELSE IF ev[1] = EV_KEY /\ ev[3] = 0 THEN down \ {ev[2]}
                     ELSE down,
                     Tail(events))

KeysDownIn(events) == {events[i][2] : i \in {j \in 1..Len(events) : IsKeyPress(events[j])}}
KeysUpIn(events) ==
  {events[i][2] : i \in {j \in 1..Len(events) :
                            events[j][1] = EV_KEY /\ events[j][3] = 0}}
UpsIn(events, k) == Cardinality({i \in 1..Len(events) : events[i] = <<EV_KEY, k, 0>>})
\* key-ups of k written after its first key-down
UpsAfterDown(events, k) ==
  LET d == CHOOSE i \in 1..Len(events) :
             /\ events[i] = <<EV_KEY, k, 1>>
             /\ \A j \in 1..(i - 1) : events[j] # <<EV_KEY, k, 1>>
  IN  Cardinality({i \in (d + 1)..Len(events) : events[i] = <<EV_KEY, k, 0>>})
Sat(n) == IF n > 2 THEN 2 ELSE n

Bump(t, events) ==
  [t EXCEPT !.ups = [k \in DOMAIN @ |-> Sat(@[k] + UpsIn(events, k))]]
\* a cycle is interrupted by a switch only, or by something else as well
Mark(intr, kind) ==
  IF intr = "none" THEN kind ELSE IF intr = kind THEN kind ELSE "mixed"
BumpAll(tr, events) == [c \in DOMAIN tr |-> Bump(tr[c], events)]
Interrupt(tr, kind) == [c \in DOMAIN tr |-> [tr[c] EXCEPT !.intr = Mark(@, kind)]]

\* c is a holdable, non-modifier, non-on-release control with an ordinary mapping
IsPlain(s, c) ==
  /\ c \in HOLDABLE_BUTTONS
  /\ c \notin s.modifier_buttons
  /\ HasProfile(s)
  /\ c \notin s.current_profile.modifier_buttons
  /\ c \notin s.current_profile.on_release_controls
  /\ Get(s.mapping, PressByte(c), << >>) # << >>

SessionOf(s) ==
  <<s.active_modifiers, s.base_action_active, s.combo_used,
    s.active_button_events, s.active_combo_events,
    s.double_click_first_press, s.double_click_active_events,
    s.on_release_pending, s.on_release_combo_pending,
    s.on_release_modifier_pending>>

EmptySession ==
  <<{}, {}, {}, EmptyDict, EmptyDict, {}, EmptyDict, EmptyDict, EmptyDict, EmptyDict>>

\* the operation of a step, and whether it found session state to reset
Op(op, same) == [op |-> op, same |-> same, dirty |-> FALSE]
AdminOp(op, same) == [op |-> op, same |-> same, dirty |-> session # EmptySession]

(***************************************************************************)
(* Actions                                                                 *)
(***************************************************************************)
Apply(r) ==
  /\ profiles' = r.profiles
  /\ current_profile' = r.current_profile
  /\ mapping' = r.mapping
  /\ capabilities' = r.capabilities
  /\ controller' = r.controller
  /\ global_modifier_delay' = r.global_modifier_delay
  /\ modifier_delay' = r.modifier_delay
  /\ modifier_buttons' = r.modifier_buttons
  /\ modifier_mappings' = r.modifier_mappings
  /\ modifier_base_actions' = r.modifier_base_actions
  /\ active_modifiers' = r.active_modifiers
  /\ base_action_active' = r.base_action_active
  /\ combo_used' = r.combo_used
  /\ active_button_events' = r.active_button_events
  /\ active_combo_events' = r.active_combo_events
  /\ double_click_first_press' = r.double_click_first_press
  /\ double_click_active_events' = r.double_click_active_events
  /\ on_release_pending' = r.on_release_pending
  /\ on_release_combo_pending' = r.on_release_combo_pending
  /\ on_release_modifier_pending' = r.on_release_modifier_pending
  \* closing a uinput device releases every key it holds down
  /\ key_down' = IF \E i \in 1..Len(r.dev_ops) : r.dev_ops[i] = "close"
                   THEN ApplyKeys({}, r.out)
                   ELSE ApplyKeys(key_down, r.out)

(***************************************************************************)
(* The connection loop of start(): device_ble.py and device_usb.py         *)
(***************************************************************************)
\* times are counted in quarters of a second: 5.0 s, 7.5 s and 10.0 s are exact
\* self.reconnect_delay = 5.0
InitialDelay == 20

\* min(..., 10.0)
MaxDelay == 40

Min(a, b) == IF a <= b THEN a ELSE b

\* delay = min(self.reconnect_delay, 10.0)
BackoffDelay(delay) == Min(delay, MaxDelay)

\* self.reconnect_delay = min(self.reconnect_delay * 1.5, 10.0)
NextDelay(delay) == Min((delay * 3) \div 2, MaxDelay)

(***************************************************************************)
(* Haptic configuration message: haptic.py                                 *)
(***************************************************************************)
\* HapticStrength and HapticSpeed: name -> the value sent to the device
HapticStrength == ("OFF" :> 0) @@ ("WEAK" :> 4) @@ ("STRONG" :> 8)
HapticSpeed == ("FAST" :> 0) @@ ("MEDIUM" :> 1) @@ ("SLOW" :> 2)

HAPTIC_DIALS == {"knob", "scroll", "dial"}

\* (dial, modifier) -> offset in the message, counted from 0
HAPTIC_BYTE_OFFSETS ==
     <<"knob", None>> :> 4 @@ <<"knob", "tall">> :> 6 @@ <<"knob", "short">> :> 8
  @@ <<"knob", "top">> :> 10 @@ <<"knob", "side">> :> 12 @@ <<"knob", "knob_click">> :> 34
  @@ <<"knob", "scroll_click">> :> 36 @@ <<"knob", "dial_click">> :> 38 @@ <<"knob", "tour">> :> 40
  @@ <<"knob", "dpad_up">> :> 42 @@ <<"knob", "dpad_down">> :> 44 @@ <<"knob", "dpad_left">> :> 46
  @@ <<"knob", "dpad_right">> :> 48 @@ <<"knob", "c1">> :> 50 @@ <<"knob", "c2">> :> 52
  @@ <<"scroll", None>> :> 14 @@ <<"scroll", "tall">> :> 16 @@ <<"scroll", "short">> :> 18
  @@ <<"scroll", "top">> :> 20 @@ <<"scroll", "side">> :> 22 @@ <<"scroll", "dpad_up">> :> 26
  @@ <<"scroll", "dpad_down">> :> 28 @@ <<"scroll", "dpad_left">> :> 30 @@ <<"scroll", "dpad_right">> :> 32
  @@ <<"scroll", "scroll_click">> :> 54 @@ <<"scroll", "knob_click">> :> 56 @@ <<"scroll", "dial_click">> :> 58
  @@ <<"scroll", "tour">> :> 60 @@ <<"scroll", "c1">> :> 62 @@ <<"scroll", "c2">> :> 64
  @@ <<"dial", None>> :> 24 @@ <<"dial", "dial_click">> :> 66 @@ <<"dial", "knob_click">> :> 68
  @@ <<"dial", "scroll_click">> :> 70 @@ <<"dial", "tour">> :> 72 @@ <<"dial", "dpad_up">> :> 74
  @@ <<"dial", "dpad_down">> :> 76 @@ <<"dial", "dpad_left">> :> 78 @@ <<"dial", "dpad_right">> :> 80
  @@ <<"dial", "c1">> :> 82 @@ <<"dial", "c2">> :> 84 @@ <<"dial", "tall">> :> 86
  @@ <<"dial", "short">> :> 88 @@ <<"dial", "top">> :> 90 @@ <<"dial", "side">> :> 92

\* _CONFIG_MESSAGE_TEMPLATE, byte by byte
CONFIG_MESSAGE_TEMPLATE ==
  <<181, 0, 93, 4, 0, 5, 0, 6, 0, 7, 0, 8, 0, 9, 0, 11,
    0, 12, 0, 13, 0, 14, 0, 15, 0, 38, 0, 39, 0, 40, 0, 41,
    0, 59, 0, 60, 0, 61, 0, 62, 0, 63, 0, 64, 0, 65, 0, 66,
    0, 67, 0, 68, 0, 69, 0, 70, 0, 71, 0, 72, 0, 73, 0, 74,
    0, 75, 0, 76, 0, 77, 0, 78, 0, 79, 0, 80, 0, 81, 0, 82,
    0, 83, 0, 84, 0, 168, 0, 169, 0, 170, 0, 171, 0, 254>>

\* haptic_config is None
NoHapticConfig == [is_none |-> TRUE]

\* HapticConfig()
NewHapticConfig ==
  [dial_settings |-> EmptyDict, dial_speed_settings |-> EmptyDict,
   combo_settings |-> EmptyDict, combo_speed_settings |-> EmptyDict,
   global_setting |-> None, global_speed |-> None]

\* HapticConfig.default_off()
default_off ==
  [NewHapticConfig EXCEPT !.global_setting = "OFF", !.global_speed = "FAST"]

get_strength(h, dial, modifier) ==
  IF <<dial, modifier>> \in DOMAIN h.combo_settings
    THEN h.combo_settings[<<dial, modifier>>]
  ELSE IF dial \in DOMAIN h.dial_settings THEN h.dial_settings[dial]
  ELSE IF h.global_setting # None THEN h.global_setting
  ELSE "OFF"

\* "if dial and modifier": None and the empty string skip the combo lookup
get_speed(h, dial, modifier) ==
  IF dial # None /\ modifier # None
       /\ <<dial, modifier>> \in DOMAIN h.combo_speed_settings
    THEN h.combo_speed_settings[<<dial, modifier>>]
  ELSE IF dial # None /\ dial \in DOMAIN h.dial_speed_settings
    THEN h.dial_speed_settings[dial]
  ELSE IF h.global_speed # None THEN h.global_speed
  ELSE "FAST"

\* a | b on non-negative integers
RECURSIVE BitOr(_, _)
BitOr(a, b) ==
  IF a = 0 THEN b
  ELSE IF b = 0 THEN a
  ELSE 2 * BitOr(a \div 2, b \div 2)
         + (IF a % 2 = 1 \/ b % 2 = 1 THEN 1 ELSE 0)

\* a message of the same length that is zero everywhere
build_config_message_zeros(h) == [i \in 1..Len(CONFIG_MESSAGE_TEMPLATE) |-> 0]

build_config_message(h) ==
  LET hc == IF h = NoHapticConfig THEN default_off ELSE h
  IN  [i \in 1..Len(CONFIG_MESSAGE_TEMPLATE) |->
         IF \E k \in DOMAIN HAPTIC_BYTE_OFFSETS : HAPTIC_BYTE_OFFSETS[k] = i - 1
           THEN LET k == CHOOSE q \in DOMAIN HAPTIC_BYTE_OFFSETS :
                            HAPTIC_BYTE_OFFSETS[q] = i - 1
                IN  BitOr(HapticStrength[get_strength(hc, k[1], k[2])],
                          HapticSpeed[get_speed(hc, k[1], k[2])])
           ELSE CONFIG_MESSAGE_TEMPLATE[i]]

\* the Python slice s[a:b]
Slice(s, a, b) ==
  LET hi == IF b <= Len(s) THEN b ELSE Len(s)
  IN  IF a >= hi THEN << >> ELSE SubSeq(s, a + 1, hi)

\* the last chunk is cut at 90
build_config_commands_short(h) ==
  LET full_msg == build_config_message(h)
  IN  <<Slice(full_msg, 0, 20), Slice(full_msg, 20, 40), Slice(full_msg, 40, 60),
        Slice(full_msg, 60, 80), Slice(full_msg, 80, 90)>>

build_config_commands(h) ==
  LET full_msg == build_config_message(h)
  IN  <<Slice(full_msg, 0, 20), Slice(full_msg, 20, 40), Slice(full_msg, 40, 60),
        Slice(full_msg, 60, 80), Slice(full_msg, 80, 94)>>

build_config_message_usb(h) == build_config_message(h)

\* HapticConfig.set_global, set_dial, set_combo, set_dial_speed, set_combo_speed
set_global(h, strength, speed) ==
  [h EXCEPT !.global_setting = strength,
            !.global_speed = IF speed # None THEN speed ELSE @]

set_dial(h, dial, strength) ==
  IF dial \notin HAPTIC_DIALS THEN h
  ELSE [h EXCEPT !.dial_settings = Put(@, dial, strength)]

set_combo(h, dial, modifier, strength) ==
  [h EXCEPT !.combo_settings = Put(@, <<dial, modifier>>, strength)]

set_dial_speed(h, dial, speed) ==
  IF dial \notin HAPTIC_DIALS THEN h
  ELSE [h EXCEPT !.dial_speed_settings = Put(@, dial, speed)]

set_combo_speed(h, dial, modifier, speed) ==
  [h EXCEPT !.combo_speed_settings = Put(@, <<dial, modifier>>, speed)]

\* no byte has arrived
QueuesIdle ==
  /\ inbox = << >>
  /\ arrived = << >>
  /\ handled = << >>
  /\ busy = << >>

\* nothing recorded, no signal received
HistoryIdle ==
  /\ history = << >>
  /\ reload_config = FALSE
  /\ signalled = FALSE

\* no task created, no channel opened
TasksIdle ==
  /\ QueuesIdle
  /\ HistoryIdle
  /\ monitor_task = "none"
  /\ read_task = "none"
  /\ channel = "closed"

\* no haptic message built, nothing written, nothing left to write
WritesIdle ==
  /\ haptic_config = NoHapticConfig
  /\ config_message = << >>
  /\ config_commands = << >>
  /\ wire = << >>
  /\ sending = EmptyDict

DeviceIdle == WritesIdle /\ TasksIdle

\* the loop before start() has reached it
LoopIdle ==
  /\ transport = "ble"
  /\ pc = "idle"
  /\ kill_now = FALSE
  /\ reconnect_delay = InitialDelay
  /\ should_retry = TRUE
  /\ port_exists = TRUE
  /\ waits = << >>

LinkIdle == LoopIdle /\ DeviceIdle

Init ==
  /\ phase = "init"
  /\ connected = FALSE
  /\ profiles = << >>
  /\ current_profile = NoProfile
  /\ mapping = EmptyDict
  /\ capabilities = NoCaps
  /\ controller = NoController
  /\ ConfigsWellFormed
  /\ global_modifier_delay \in {cfg.modifier_delay : cfg \in Configs}
  /\ modifier_delay = global_modifier_delay
  /\ modifier_buttons = {}
  /\ modifier_mappings = EmptyDict
  /\ modifier_base_actions = EmptyDict
  /\ active_modifiers = {}
  /\ base_action_active = {}
  /\ combo_used = {}
  /\ active_button_events = EmptyDict
  /\ active_combo_events = EmptyDict
  /\ double_click_first_press = {}
  /\ double_click_active_events = EmptyDict
  /\ on_release_pending = EmptyDict
  /\ on_release_combo_pending = EmptyDict
  /\ on_release_modifier_pending = EmptyDict
  /\ held = {}
  /\ out = << >>
  /\ key_down = {}
  /\ track = EmptyDict
  /\ closed = NoCycle
  /\ last = Op("construct", FALSE)
  /\ resets = 0
  /\ LinkIdle

\* start() with a non-empty profile list
Start(cfg) ==
  /\ phase = "init"
  /\ cfg.profiles # << >>
  /\ cfg.modifier_delay = global_modifier_delay      \* the file read by __init__
  /\ Apply(start(Self, cfg.profiles))
  /\ out' = << >>
  /\ phase' = "running"
  /\ last' = Op("start", FALSE)
  /\ closed' = NoCycle
  /\ UNCHANGED <<link, connected, held, track, resets>>

\* start() when load_profiles returns nothing: sys.exit(1)
StartNoProfiles ==
  /\ phase = "init"
  /\ phase' = "exited"
  /\ last' = Op("exit", FALSE)
  /\ UNCHANGED <<link, connected, store, tables, session, held, out, key_down, track,
                 closed, resets>>

\* a transport session comes up
Connect ==
  /\ phase = "running"
  /\ ~connected
  /\ connected' = TRUE
  /\ last' = Op("connect", FALSE)
  /\ out' = << >>
  /\ closed' = NoCycle
  /\ UNCHANGED <<link, phase, store, tables, session, held, key_down, track, resets>>

\* disconnection_handler (BLE) / end of run_connection (USB)
Disconnect ==
  /\ phase = "running"
  /\ resets < MaxResets
  /\ connected
  /\ connected' = FALSE
  /\ \E r \in {clear_modifier_state(Self)} : Apply(r) /\ out' = r.out
  /\ last' = AdminOp("disconnect", FALSE)
  /\ track' = Interrupt(track, "disconnect")
  /\ closed' = NoCycle
  /\ resets' = resets + 1
  /\ UNCHANGED <<link, phase, held>>

\* processing data compares time.time() with a stored first-press timestamp
TimeIsRead(data) ==
  \E c \in double_click_first_press : data = PressByte(c)

\* notification_handler / _read_loop: one byte through process_button_code
ByteStep(data, fast, emit, observe) ==
  /\ phase = "running"
  /\ connected
  \* a button sends Press when it goes down and Release when it goes up
  /\ LET ci == get_control_name_from_code(data)
     IN  IF ci = << >> \/ ci[1] \in ROTARY_CONTROLS
           THEN UNCHANGED held
           ELSE IF ci[2] THEN ci[1] \notin held /\ held' = held \cup {ci[1]}
                ELSE ci[1] \in held /\ held' = held \ {ci[1]}
  /\ \E r \in {process_button_code(Self, data, fast)} :
     LET ci == get_control_name_from_code(data)
         plain == IsPlain(Self, ci[1])
     IN  /\ Apply(r)
         /\ out' = IF emit THEN r.out ELSE << >>
         /\ last' = Op("byte", FALSE)
         /\ IF ~observe THEN UNCHANGED <<track, closed>>
            ELSE IF ci = << >> \/ ci[1] \in ROTARY_CONTROLS
              THEN /\ track' = BumpAll(track, r.out)
                   /\ closed' = NoCycle
            ELSE IF ci[2]
              THEN /\ track' =
                        Put(BumpAll(Del(track, ci[1]), r.out), ci[1],
                            [keys |-> KeysDownIn(r.out),
                             ups |-> IF plain
                                       THEN [k \in KeysDownIn(r.out) |->
                                               Sat(UpsAfterDown(r.out, k))]
                                       ELSE << >>,
                             intr |-> "none",
                             plain |-> plain])
                   /\ closed' = NoCycle
            ELSE /\ track' = BumpAll(Del(track, ci[1]), r.out)
                 /\ closed' =
                      IF ci[1] \in DOMAIN track
                        THEN LET t == Bump(track[ci[1]], r.out)
                             IN  [ctl |-> ci[1], keys |-> t.keys, ups |-> t.ups,
                                  intr |-> t.intr, plain |-> t.plain,
                                  up_now |-> KeysUpIn(r.out)]
                        ELSE NoCycle
  /\ UNCHANGED <<link, phase, connected, resets>>

ProcessByte(data, fast) == ByteStep(data, fast, FALSE, FALSE)

\* the same step, with the press/release cycles of the controls recorded
ProcessByteObserved(data, fast) == ByteStep(data, fast, FALSE, TRUE)

\* the same step, with the events it wrote to the output device recorded
ProcessByteEmitting(data, fast) == ByteStep(data, fast, TRUE, FALSE)

\* switch_profile(profile) for a profile of the list
SwitchProfile(profile) ==
  /\ phase = "running"
  /\ profile # current_profile => resets < MaxResets
  /\ \E r \in {switch_profile(Self, profile)} : Apply(r) /\ out' = r.out
  /\ last' = AdminOp("switch", profile = current_profile)
  /\ track' = IF profile = current_profile THEN track ELSE Interrupt(track, "switch")
  /\ closed' = NoCycle
  /\ resets' = IF profile = current_profile THEN resets ELSE resets + 1
  /\ UNCHANGED <<link, phase, connected, held>>

\* the window poller reports an observation
OnWindowChange(window_info) ==
  /\ phase = "running"
  /\ WindowTarget(Self, window_info) # NoProfile => resets < MaxResets
  /\ \E r \in {on_window_change(Self, window_info)} : Apply(r) /\ out' = r.out
  /\ last' = IF WindowTarget(Self, window_info) = NoProfile
               THEN Op("window", TRUE) ELSE AdminOp("switch", FALSE)
  /\ track' = IF WindowTarget(Self, window_info) = NoProfile THEN track
              ELSE Interrupt(track, "switch")
  /\ closed' = NoCycle
  /\ resets' = IF WindowTarget(Self, window_info) = NoProfile THEN resets
               ELSE resets + 1
  /\ UNCHANGED <<link, phase, connected, held>>

\* SIGHUP seen at the top of a loop: reload_config_mappings
Reload(cfg) ==
  /\ phase = "running"
  /\ cfg.profiles # << >> => resets < MaxResets
  /\ \E r \in {reload_config_mappings(Self, cfg.profiles, cfg.modifier_delay)} : Apply(r) /\ out' = r.out
  /\ last' = AdminOp(IF cfg.profiles = << >> THEN "reload_rejected" ELSE "reload",
                    FALSE)
  /\ track' = IF cfg.profiles = << >> THEN track ELSE Interrupt(track, "reload")
  /\ closed' = NoCycle
  /\ resets' = IF cfg.profiles = << >> THEN resets ELSE resets + 1
  /\ UNCHANGED <<link, phase, connected, held>>

\* everything but the control bytes
Admin ==
  \/ \E cfg \in Configs : Start(cfg)
  \/ StartNoProfiles
  \/ Connect
  \/ Disconnect
  \/ \E i \in 1..Len(profiles) : SwitchProfile(profiles[i])
  \/ \E w \in Windows : OnWindowChange(w)
  \/ \E cfg \in Configs \cup {EmptyConfig} : Reload(cfg)

Next ==
  \/ Admin
  \/ \E data \in Bytes, fast \in BOOLEAN :
        /\ fast => TimeIsRead(data)
        /\ ProcessByte(data, fast)

Spec == Init /\ [][Next]_vars

NextCycles ==
  \/ Admin
  \/ \E data \in Bytes, fast \in BOOLEAN :
        /\ fast => TimeIsRead(data)
        /\ ProcessByteObserved(data, fast)

\* the driver with the press/release cycles of its controls observed
SpecCycles == Init /\ [][NextCycles]_vars

NextEvents ==
  \/ Admin
  \/ \E data \in Bytes, fast \in BOOLEAN :
        /\ fast => TimeIsRead(data)
        /\ ProcessByteEmitting(data, fast)

\* the driver with the events of every byte observed on the output device
SpecEvents == Init /\ [][NextEvents]_vars

(***************************************************************************)
(* The driver from the point where its tables are loaded                   *)
(***************************************************************************)
\* the object __init__ leaves behind
Constructed(delay) ==
  [profiles |-> << >>, current_profile |-> NoProfile,
   mapping |-> EmptyDict, capabilities |-> NoCaps,
   controller |-> NoController,
   global_modifier_delay |-> delay,
   modifier_delay |-> delay,
   modifier_buttons |-> {},
   modifier_mappings |-> EmptyDict,
   modifier_base_actions |-> EmptyDict,
   active_modifiers |-> {},
   base_action_active |-> {},
   combo_used |-> {},
   active_button_events |-> EmptyDict,
   active_combo_events |-> EmptyDict,
   double_click_first_press |-> {},
   double_click_active_events |-> EmptyDict,
   on_release_pending |-> EmptyDict,
   on_release_combo_pending |-> EmptyDict,
   on_release_modifier_pending |-> EmptyDict,
   out |-> << >>, dev_ops |-> << >>, raised |-> FALSE]

\* start() with the configuration, then a SIGHUP that reloads the same file:
\* the first point at which the modifier tables of the profile are in place
Loaded(cfg) ==
  reload_config_mappings(start(Constructed(cfg.modifier_delay), cfg.profiles),
                         cfg.profiles, cfg.modifier_delay)

\* a connected driver right after that reload, nothing pressed yet; resets
\* counts the switches, reloads and disconnects from here on
InitLoaded ==
  /\ phase = "running"
  /\ connected = TRUE
  /\ \E cfg \in Configs :
       \E r \in {Loaded(cfg)} :
          /\ profiles = r.profiles
          /\ current_profile = r.current_profile
          /\ mapping = r.mapping
          /\ capabilities = r.capabilities
          /\ controller = r.controller
          /\ global_modifier_delay = r.global_modifier_delay
          /\ modifier_delay = r.modifier_delay
          /\ modifier_buttons = r.modifier_buttons
          /\ modifier_mappings = r.modifier_mappings
          /\ modifier_base_actions = r.modifier_base_actions
          /\ active_modifiers = r.active_modifiers
          /\ base_action_active = r.base_action_active
          /\ combo_used = r.combo_used
          /\ active_button_events = r.active_button_events
          /\ active_combo_events = r.active_combo_events
          /\ double_click_first_press = r.double_click_first_press
          /\ double_click_active_events = r.double_click_active_events
          /\ on_release_pending = r.on_release_pending
          /\ on_release_combo_pending = r.on_release_combo_pending
          /\ on_release_modifier_pending = r.on_release_modifier_pending
  /\ held = {}
  /\ out = << >>
  /\ key_down = {}
  /\ track = EmptyDict
  /\ closed = NoCycle
  /\ last = AdminOp("reload", FALSE)
  /\ resets = 0
  /\ LinkIdle

NextLoaded ==
  \/ Connect
  \/ Disconnect
  \/ \E i \in 1..Len(profiles) : SwitchProfile(profiles[i])
  \/ \E w \in Windows : OnWindowChange(w)
  \/ \E cfg \in Configs \cup {EmptyConfig} : Reload(cfg)
  \/ \E data \in Bytes, fast \in BOOLEAN :
        /\ fast => TimeIsRead(data)
        /\ ProcessByteEmitting(data, fast)

\* the driver with loaded tables, the events of every byte observed
SpecLoaded == InitLoaded /\ [][NextLoaded]_vars

(***************************************************************************)
(* _send_events on its own: any short action, with and without a delay     *)
(***************************************************************************)
\* longest action sent
MaxEvents == 3

\* Ctrl down, Shift down, C down, Ctrl up, wheel step
SendAlphabet ==
  {<<EV_KEY, 29, 1>>, <<EV_KEY, 42, 1>>, <<EV_KEY, 46, 1>>, <<EV_KEY, 29, 0>>,
   <<EV_REL, 8, 1>>}

SendInputs == UNION {[1..n -> SendAlphabet] : n \in 0..MaxEvents}

\* the byte whose action is sent
SendByte == PressByte("side")

\* a running driver with an open output device, the action under SendByte
InitSend ==
  /\ phase = "running"
  /\ connected = TRUE
  /\ profiles = << >>
  /\ current_profile = NoProfile
  /\ mapping \in {Put(EmptyDict, SendByte, events) : events \in SendInputs}
  /\ capabilities = NoCaps
  /\ controller = [open |-> TRUE, caps |-> NoCaps]
  /\ global_modifier_delay \in {0, 1}
  /\ modifier_delay = global_modifier_delay
  /\ modifier_buttons = {}
  /\ modifier_mappings = EmptyDict
  /\ modifier_base_actions = EmptyDict
  /\ active_modifiers = {}
  /\ base_action_active = {}
  /\ combo_used = {}
  /\ active_button_events = EmptyDict
  /\ active_combo_events = EmptyDict
  /\ double_click_first_press = {}
  /\ double_click_active_events = EmptyDict
  /\ on_release_pending = EmptyDict
  /\ on_release_combo_pending = EmptyDict
  /\ on_release_modifier_pending = EmptyDict
  /\ held = {}
  /\ out = << >>
  /\ key_down = {}
  /\ track = EmptyDict
  /\ closed = NoCycle
  /\ last = Op("construct", FALSE)
  /\ resets = 0
  /\ LinkIdle

\* self._send_events(mapping[SendByte])
SendEvents ==
  /\ \E r \in {send_events(Self, mapping[SendByte])} :
        /\ out' = r.out
        /\ key_down' = ApplyKeys(key_down, r.out)
  /\ last' = Op("send", FALSE)
  /\ UNCHANGED <<link, phase, connected, store, tables, session, held, track, closed,
                 resets>>

SpecSend == InitSend /\ [][SendEvents]_vars

(***************************************************************************)
(* start()'s connection loop on its own, on either transport               *)
(***************************************************************************)
\* longest run of backoff sleeps recorded
MaxFailures == 4

Transports == {"ble", "usb"}

\* how a connection attempt can end: the scan finds nothing (BLE), the
\* connect times out (BLE), connect() returns False (USB), unlocking or
\* anything else raises, or the device is ready
AttemptOutcomes(t) ==
  IF t = "ble" THEN {"no_device", "timeout", "error", "ready"}
  ELSE {"refused", "error", "ready"}

\* how a session can end: the shutdown flag is seen, the link is lost, or
\* something raises
SessionEnds == {"killed", "lost", "error"}

\* the value run_connection() returns
run_connection_never_retry(how, kill) == FALSE

run_connection_returns(how, kill) ==
  IF how \in {"killed", "lost"} THEN ~kill ELSE TRUE

\* the reconnect delay once the device is ready
ready_delay_kept(delay) == delay

ready_delay(delay) == InitialDelay

\* the backoff sleeps since the last successful connect, the new one added
Waited(sleeps, delay) ==
  IF Len(sleeps) < MaxFailures THEN Append(sleeps, delay) ELSE sleeps

\* a driver whose start() has reached the connection loop
InitLink ==
  /\ phase = "running"
  /\ connected = FALSE
  /\ profiles = << >>
  /\ current_profile = NoProfile
  /\ mapping = EmptyDict
  /\ capabilities = NoCaps
  /\ controller = [open |-> TRUE, caps |-> NoCaps]
  /\ global_modifier_delay = 0
  /\ modifier_delay = 0
  /\ modifier_buttons = {}
  /\ modifier_mappings = EmptyDict
  /\ modifier_base_actions = EmptyDict
  /\ active_modifiers = {}
  /\ base_action_active = {}
  /\ combo_used = {}
  /\ active_button_events = EmptyDict
  /\ active_combo_events = EmptyDict
  /\ double_click_first_press = {}
  /\ double_click_active_events = EmptyDict
  /\ on_release_pending = EmptyDict
  /\ on_release_combo_pending = EmptyDict
  /\ on_release_modifier_pending = EmptyDict
  /\ held = {}
  /\ out = << >>
  /\ key_down = {}
  /\ track = EmptyDict
  /\ closed = NoCycle
  /\ last = Op("construct", FALSE)
  /\ resets = 0
  /\ transport \in Transports
  /\ pc = "top"
  /\ kill_now = FALSE
  /\ reconnect_delay = InitialDelay
  /\ should_retry = TRUE
  /\ port_exists \in BOOLEAN
  /\ waits = << >>
  /\ DeviceIdle

\* no byte arrives here: the engine keeps the state start() gave it
EngineIdle == UNCHANGED <<phase, store, tables, session, ghost, device, tasks>>

\* while not self.killer.kill_now: ... (USB: if not os.path.exists(self.port))
LoopTop ==
  /\ pc = "top"
  /\ pc' = IF kill_now THEN "stopped"
           ELSE IF transport = "usb" /\ ~port_exists THEN "poll"
           ELSE "connecting"
  /\ UNCHANGED <<transport, kill_now, reconnect_delay, should_retry, port_exists,
                 waits, connected>>
  /\ EngineIdle

\* await asyncio.sleep(2.0); continue
PortWait ==
  /\ pc = "poll"
  /\ pc' = "top"
  /\ UNCHANGED <<transport, kill_now, reconnect_delay, should_retry, port_exists,
                 waits, connected>>
  /\ EngineIdle

\* run_connection() up to the session loop
Attempt(outcome) ==
  /\ pc = "connecting"
  /\ outcome \in AttemptOutcomes(transport)
  /\ (transport = "usb" /\ outcome = "ready") => port_exists
  /\ IF outcome = "ready"
       THEN /\ reconnect_delay' = ready_delay(reconnect_delay)
            /\ waits' = << >>
            /\ connected' = TRUE
            /\ pc' = "session"
            /\ UNCHANGED should_retry
       ELSE /\ should_retry' = run_connection_returns(outcome, kill_now)
            /\ pc' = "returned"
            /\ UNCHANGED <<reconnect_delay, waits, connected>>
  /\ UNCHANGED <<transport, kill_now, port_exists>>
  /\ EngineIdle

\* the session loop of run_connection() ends
SessionEnd(how) ==
  /\ pc = "session"
  /\ how \in SessionEnds
  /\ how = "killed" => kill_now
  /\ should_retry' = run_connection_returns(how, kill_now)
  /\ connected' = FALSE
  /\ pc' = "returned"
  /\ UNCHANGED <<transport, kill_now, reconnect_delay, port_exists, waits>>
  /\ EngineIdle

\* if not should_retry: break; if not kill_now: delay = min(...); sleep(delay)
AfterReturn ==
  /\ pc = "returned"
  /\ IF ~should_retry
       THEN pc' = "stopped" /\ UNCHANGED waits
       ELSE IF ~kill_now
         THEN /\ pc' = "backoff"
              /\ waits' = Waited(waits, BackoffDelay(reconnect_delay))
         ELSE pc' = "top" /\ UNCHANGED waits
  /\ UNCHANGED <<transport, kill_now, reconnect_delay, should_retry, port_exists,
                 connected>>
  /\ EngineIdle

\* the sleep is over: self.reconnect_delay = min(self.reconnect_delay * 1.5, 10.0)
BackoffDone ==
  /\ pc = "backoff"
  /\ reconnect_delay' = NextDelay(reconnect_delay)
  /\ pc' = "top"
  /\ UNCHANGED <<transport, kill_now, should_retry, port_exists, waits, connected>>
  /\ EngineIdle

\* SIGINT or SIGTERM: GracefulKiller.exit_gracefully
Shutdown ==
  /\ pc # "stopped"
  /\ ~kill_now
  /\ kill_now' = TRUE
  /\ UNCHANGED <<transport, pc, reconnect_delay, should_retry, port_exists, waits,
                 connected>>
  /\ EngineIdle

\* the serial port appears or disappears
PortChange ==
  /\ transport = "usb"
  /\ pc # "stopped"
  /\ port_exists' = ~port_exists
  /\ UNCHANGED <<transport, pc, kill_now, reconnect_delay, should_retry, waits,
                 connected>>
  /\ EngineIdle

NextLink ==
  \/ LoopTop
  \/ PortWait
  \/ \E outcome \in AttemptOutcomes(transport) : Attempt(outcome)
  \/ \E how \in SessionEnds : SessionEnd(how)
  \/ AfterReturn
  \/ BackoffDone
  \/ Shutdown
  \/ PortChange

SpecLink == InitLink /\ [][NextLink]_vars

\* the event loop keeps running the driver's own steps: sleeps end, the scan
\* and the connect have timeouts, and a set shutdown flag is seen within 0.5 s
SpecLinkFair ==
  /\ InitLink
  /\ [][NextLink]_vars
  /\ WF_vars(LoopTop)
  /\ WF_vars(PortWait)
  /\ WF_vars(\E outcome \in AttemptOutcomes(transport) : Attempt(outcome))
  /\ WF_vars(SessionEnd("killed"))
  /\ WF_vars(AfterReturn)
  /\ WF_vars(BackoffDone)

(***************************************************************************)
(* Properties                                                              *)
(***************************************************************************)
\* the engine tables a profile declares
TablesOf(profile, global_delay) ==
  <<profile.mapping, profile.modifier_buttons,
    ConvertModifierMappings(profile), ConvertBaseActions(profile),
    ResolveModifierDelay(profile, global_delay)>>

\* C1: when the Release of a holdable, non-modifier, non-on-release control
\* with an ordinary mapping has been processed, and no switch, reload or
\* disconnect fell into the cycle, every key its Press put down has received
\* exactly one key-up since, whatever other controls did in between.
C1_ExactlyOneKeyUp ==
  (closed.ctl # None /\ closed.plain /\ closed.intr = "none")
    => \A k \in closed.keys : closed.ups[k] = 1

\* C2: once a disconnect has been handled no synthesized key is left down.
C2_NoKeyDownAfterDisconnect ==
  last.op = "disconnect" => key_down = {}

\* C3: once a disconnect has been handled every transient session container,
\* the three deferred on-release maps included, is empty.
C3_SessionEmptyAfterDisconnect ==
  last.op = "disconnect" => session = EmptySession

\* C4: the Release of a control held across a profile switch (and nothing
\* else) finds every key its Press put down released by then, and writes no
\* key-up for a key that is not down.
C4_SwitchLeavesNoOrphans ==
  [][(closed'.ctl # None /\ closed'.plain /\ closed'.intr = "switch")
       => /\ \A k \in closed'.keys : closed'.ups[k] >= 1
          /\ closed'.up_now \subseteq key_down]_vars

\* C5: from start onward the engine tables (byte mapping, modifier buttons,
\* combo table, base actions, effective modifier delay) are those the
\* current profile declares.
C5_TablesFollowProfile ==
  phase = "running" => tables = TablesOf(current_profile, global_modifier_delay)

\* C6: a switch to a profile other than the current one makes that profile
\* the current profile and leaves every transient session container empty.
C6_SwitchResetsSession ==
  [][(last'.op = "switch" /\ ~last'.same) =>
       /\ \A i \in 1..Len(profiles) :
             SwitchProfile(profiles[i]) => current_profile' = profiles[i]
       /\ session' = EmptySession]_vars

\* a switch to another profile found session state and has been performed
C6_Witness ==
  /\ last.op = "switch" /\ ~last.same /\ last.dirty
  /\ session = EmptySession

\* C7: after a successful reload every transient session container is empty.
C7_SessionEmptyAfterReload ==
  last.op = "reload" => session = EmptySession

\* C8: a switch to the profile that is already current changes no session
\* container, no engine table, no capability set and not the output device.
C8_SwitchToCurrentIsNoOp ==
  [][(last'.op = "switch" /\ last'.same)
       => UNCHANGED <<session, tables, store, key_down>>]_vars

\* a switch to the current profile has been performed on a non-empty session
C8_Witness ==
  /\ last.op = "switch" /\ last.same /\ last.dirty
  /\ session # EmptySession

\* C9: a reload that loads no profile leaves the profile list, the current
\* profile, the engine tables, the capabilities and the output device as
\* they were, and the driver keeps running.
C9_EmptyReloadRejected ==
  [][last'.op = "reload_rejected"
       => /\ UNCHANGED <<store, tables, key_down>>
          /\ phase' = "running"]_vars

\* an empty reload has been rejected by a driver that holds profiles
C9_Witness ==
  /\ last.op = "reload_rejected"
  /\ profiles # << >> /\ current_profile # NoProfile

\* C10: a successful reload makes current the profile of the new list that
\* carries the previous current profile's name, else the one named default,
\* else the first; it is always a member of the new list.
C10_ReloadResolvesCurrent ==
  [][last'.op = "reload" =>
       \A cfg \in Configs :
          Reload(cfg) =>
            LET new == cfg.profiles
                names == {new[i].name : i \in 1..Len(new)}
            IN  /\ \E i \in 1..Len(new) : current_profile' = new[i]
                /\ current_profile.name \in names
                     => current_profile'.name = current_profile.name
                /\ (current_profile.name \notin names /\ "default" \in names)
                     => current_profile'.name = "default"
                /\ (current_profile.name \notin names /\ "default" \notin names)
                     => current_profile' = new[1]]_vars

\* a reload fell back to the profile named default, which is not the first
C10_Witness ==
  /\ last.op = "reload"
  /\ current_profile.name = "default"
  /\ profiles[1] # current_profile

\* one key-up, in the order of the list, for every key-down of the list
KeyUpsOf(events) ==
  LET downs == SelectSeq(events, IsKeyPress)
  IN  [i \in 1..Len(downs) |-> <<EV_KEY, downs[i][2], 0>>]

\* the Press of control c is the byte this step processes
PressOf(c) == last'.op = "byte" /\ c \notin held /\ held' = held \cup {c}

\* the Release of control c is the byte this step processes
ReleaseOf(c) == last'.op = "byte" /\ c \in held /\ held' = held \ {c}

\* C11: last-wins. With a holdable plain control A pressed and tracked, no
\* modifier active and no modifier delay, the Press of another holdable plain
\* control B (no double-press action) writes the key-ups of A's key-downs in
\* their order and a sync, then B's action and a sync, and nothing else;
\* afterwards B alone is tracked as held, with the key-downs of its action.
C11_LastWins ==
  [][\A A \in DOMAIN active_button_events, B \in HOLDABLE_BUTTONS :
       (/\ PressOf(B)
        /\ A # B
        /\ DOMAIN active_button_events = {A}
        /\ IsPlain(Self, A)
        /\ IsPlain(Self, B)
        /\ ~has_double_press_action(Self, B)
        /\ active_modifiers = {}
        /\ modifier_delay = 0)
       => /\ out' = KeyUpsOf(active_button_events[A]) \o <<SYN>>
                       \o mapping[PressByte(B)] \o <<SYN>>
          /\ active_button_events' =
                Put(EmptyDict, B, SelectSeq(mapping[PressByte(B)], IsKeyPress))]_vars

\* side (Ctrl+C) was held when top (Shift+V) was pressed: Ctrl up, C up,
\* sync, Shift down, V down, sync were written and top alone is tracked
C11_Witness ==
  /\ last.op = "byte"
  /\ held = {"side", "top"}
  /\ out = << <<EV_KEY, 29, 0>>, <<EV_KEY, 46, 0>>, SYN,
              <<EV_KEY, 42, 1>>, <<EV_KEY, 47, 1>>, SYN >>
  /\ DOMAIN active_button_events = {"top"}

\* the key-downs and relative events among the events written
Fired(events) == SelectSeq(events, IsKeyPressOrRel)

\* control X takes the immediate double-press path: it is not rotary, not an
\* on_release control, has a double-press action, and no combo of an active
\* modifier is eligible for it
DoublePressEligible(X) ==
  /\ X \notin ROTARY_CONTROLS
  /\ current_profile # NoProfile
  /\ X \notin current_profile.on_release_controls
  /\ X \in DOMAIN current_profile.double_press_actions
  /\ \A m \in active_modifiers : <<m, X>> \notin DOMAIN modifier_mappings

\* what a single press of X fires: the mapped action, or for a modifier
\* button the press half of its base action
SingleActionOf(X) ==
  IF X \in modifier_buttons
    THEN SelectSeq(Get(modifier_base_actions, X, << >>), IsOne)
    ELSE Get(mapping, PressByte(X), << >>)

UpsOfOnes(events) ==
  LET ones == SelectSeq(events, IsOne)
  IN  [i \in 1..Len(ones) |-> <<ones[i][1], ones[i][2], 0>>]

IsModifierDown(ev) == ev[1] = EV_KEY /\ ev[3] = 1 /\ ev[2] \in KEYBOARD_MODIFIER_KEYS

IsOrdinary(ev) == ev # SYN /\ ~IsModifierDown(ev)

\* written holds the events of the list and syncs, nothing else: the
\* keyboard-modifier key-downs in their order, and the other events in theirs
WritesExactly(written, events) ==
  /\ SelectSeq(written, IsModifierDown) = SelectSeq(events, IsModifierDown)
  /\ SelectSeq(written, IsOrdinary) = SelectSeq(events, IsOrdinary)

\* C13: with modifier M the one active modifier and its base action live,
\* the Press of a control C that has a combo with M and is not an on_release
\* control writes the release of M's base action and a sync first, then the
\* combo's events and nothing else, and marks the combo as used; the
\* Release of M after that, with the combo marked and the base action
\* cancelled, writes nothing (no second release, no re-fire of the base
\* action) and clears the mark.
C13_ComboCancelsBase ==
  [][\A M \in active_modifiers :
       /\ \A C \in Controls :
            (/\ PressOf(C) \/ (C \in ROTARY_CONTROLS /\ last'.op = "byte"
                                 /\ ProcessByteEmitting(PressByte(C), FALSE))
             /\ active_modifiers = {M}
             /\ M \in base_action_active
             /\ M \in DOMAIN modifier_base_actions
             /\ <<M, C>> \in DOMAIN modifier_mappings
             /\ modifier_mappings[<<M, C>>] # << >>
             /\ current_profile # NoProfile
             /\ C \notin current_profile.on_release_controls)
            => LET ups == UpsOfOnes(modifier_base_actions[M])
                   rest == SubSeq(out', Len(ups) + 2, Len(out'))
               IN  /\ Len(out') > Len(ups) + 1
                   /\ SubSeq(out', 1, Len(ups) + 1) = ups \o <<SYN>>
                   /\ WritesExactly(rest, modifier_mappings[<<M, C>>])
                   /\ M \in combo_used'
                   /\ M \notin base_action_active'
       /\ (ReleaseOf(M) /\ M \in combo_used /\ M \notin base_action_active)
            => /\ out' = << >>
               /\ M \notin combo_used'
               /\ M \notin base_action_active']_vars

\* tall (base action Alt) was held, side fired the combo tall.side (KEY_A),
\* and tall has been released since: nothing was written at its Release and
\* only the combo's key is down
C13_Witness ==
  /\ last.op = "byte"
  /\ held = {"side"}
  /\ "side" \in DOMAIN active_combo_events
  /\ active_modifiers = {}
  /\ combo_used = {}
  /\ out = << >>
  /\ key_down = {30}

\* C14: at most one modifier is active at any time; the Press of a modifier
\* button while another modifier is active, with no combo between the two,
\* does not add it to the active modifiers.
C14_AtMostOneModifier ==
  Cardinality(active_modifiers) <= 1

\* X is a non-modifier on_release control with an ordinary action, no combo
\* of an active modifier is eligible for it and none is deferred for it
OnReleaseEligible(X) ==
  /\ current_profile # NoProfile
  /\ X \in current_profile.on_release_controls
  /\ X \notin modifier_buttons
  /\ Get(mapping, PressByte(X), << >>) # << >>
  /\ \A m \in active_modifiers : <<m, X>> \notin DOMAIN modifier_mappings
  /\ X \notin DOMAIN on_release_combo_pending

\* the complete tap of an action: its key-downs and relative events, then
\* the key-up of every key
IsTapOf(written, action) ==
  \E n \in 0..Len(written) :
     /\ WritesExactly(SubSeq(written, 1, n), Fired(action))
     /\ SelectSeq(SubSeq(written, n + 1, Len(written)), IsOrdinary)
          = KeyUpsOf(action)
     /\ SelectSeq(SubSeq(written, n + 1, Len(written)), IsModifierDown) = << >>
     /\ written[Len(written)] = SYN

\* C15: for a non-modifier on_release control with an ordinary action and no
\* eligible combo, a Press with no first-press record pending writes nothing
\* and records the deferral; the Release of a control with a deferral
\* recorded writes the action as one complete tap and removes the deferral;
\* no deferral of the control is left after its Release.
C15_OnReleaseTap ==
  [][\A X \in HOLDABLE_BUTTONS \cap Controls :
       (last'.op = "byte" /\ held' # held /\ OnReleaseEligible(X)) =>
         /\ (PressOf(X) /\ X \notin double_click_first_press)
              => /\ out' = << >>
                 /\ X \in DOMAIN on_release_pending'
         /\ (ReleaseOf(X) /\ X \in DOMAIN on_release_pending)
              => IsTapOf(out', mapping[PressByte(X)])
         /\ ReleaseOf(X) => X \notin DOMAIN on_release_pending']_vars

\* M is an on_release modifier with a base action and no double-press action
OnReleaseModifier(M) ==
  /\ current_profile # NoProfile
  /\ M \in modifier_buttons
  /\ M \in current_profile.on_release_controls
  /\ M \in DOMAIN modifier_base_actions
  /\ M \notin DOMAIN current_profile.double_press_actions

\* this step is the Press of a control that has a combo with M, the one
\* active modifier
ComboTriggerOf(M) ==
  /\ active_modifiers = {M}
  /\ \E C \in Controls :
        /\ <<M, C>> \in DOMAIN modifier_mappings
        /\ \/ PressOf(C)
           \/ C \in ROTARY_CONTROLS /\ ProcessByteEmitting(PressByte(C), FALSE)

\* C16: for an on_release modifier M with a base action and no double-press
\* action: its Press (no combo of an active modifier targets M) writes
\* nothing, defers the base action and leaves the combo-used mark clear;
\* while M is held the mark is set exactly by the Press of a combo target of
\* M; the Release of M writes the base action as one complete tap if the
\* mark is clear and nothing if it is set, and clears the mark either way.
C16_OnReleaseModifier ==
  [][\A M \in HOLDABLE_BUTTONS \cap Controls :
       (last'.op = "byte" /\ OnReleaseModifier(M)) =>
         /\ (PressOf(M)
                /\ \A m \in active_modifiers : <<m, M>> \notin DOMAIN modifier_mappings)
              => /\ out' = << >>
                 /\ M \in active_modifiers'
                 /\ M \in DOMAIN on_release_modifier_pending'
                 /\ M \notin combo_used'
         /\ (M \in held /\ M \in held' /\ M \in active_modifiers
                /\ M \in DOMAIN on_release_modifier_pending)
              => /\ M \in active_modifiers'
                 /\ M \in DOMAIN on_release_modifier_pending'
                 /\ M \in combo_used' <=> (M \in combo_used \/ ComboTriggerOf(M))
         /\ (ReleaseOf(M) /\ M \in active_modifiers
                /\ M \in DOMAIN on_release_modifier_pending)
              => /\ IF M \in combo_used
                      THEN out' = << >>
                      ELSE IsTapOf(out', modifier_base_actions[M])
                 /\ M \notin combo_used'
                 /\ M \notin DOMAIN on_release_modifier_pending'
                 /\ M \notin active_modifiers']_vars

\* C17: when the effective modifier delay is positive and the action holds
\* both keyboard-modifier key-downs and other events, the modifier key-downs
\* are written first, in their order, and synchronised, then the other
\* events, in their order, and a sync, so that the events written are those
\* of the action; when the delay is 0 or the action holds one class only,
\* the events are written in their original order with a single sync.
C17_ModifierDelay ==
  last.op = "send" =>
    LET events == mapping[SendByte]
        modifier_presses == SelectSeq(events, IsModifierDown)
        other_events == SelectSeq(events, LAMBDA ev : ~IsModifierDown(ev))
    IN  IF events = << >> THEN out = << >>
        ELSE IF modifier_delay > 0 /\ modifier_presses # << >>
                  /\ other_events # << >>
          THEN out = modifier_presses \o <<SYN>> \o other_events \o <<SYN>>
          ELSE out = events \o <<SYN>>

\* C down, Ctrl down, wheel step was sent with a delay: Ctrl went first
C17_Witness ==
  /\ last.op = "send"
  /\ modifier_delay > 0
  /\ mapping[SendByte] = << <<EV_KEY, 46, 1>>, <<EV_KEY, 29, 1>>, <<EV_REL, 8, 1>> >>
  /\ out = << <<EV_KEY, 29, 1>>, SYN, <<EV_KEY, 46, 1>>, <<EV_REL, 8, 1>>, SYN >>

\* the session with X held and nothing else: X's key-downs tracked for last-wins
SessionHolding(X) ==
  <<{}, {}, {},
    Put(EmptyDict, X, SelectSeq(mapping[PressByte(X)], IsKeyPress)),
    EmptyDict, {}, EmptyDict, EmptyDict, EmptyDict, EmptyDict>>

RetryPending == pc = "returned" /\ should_retry /\ ~kill_now

\* C19: on both transports the backoff sleeps since the last successful
\* connect are 5 s, 7.5 s, 10 s, 10 s, ... (20, 30, 40 quarters of a second),
\* a session that has come up has put the stored delay back to 5 s, and the
\* stored delay is always between 5 s and 10 s.
C19_Backoff ==
  /\ reconnect_delay >= 20 /\ reconnect_delay <= 40
  /\ \A i \in 1..Len(waits) :
        waits[i] = IF i = 1 THEN 20 ELSE IF i = 2 THEN 30 ELSE 40
  /\ pc = "session" => reconnect_delay = 20

\* four sleeps in a row without a successful connect: 5 s, 7.5 s, 10 s, 10 s
C19_Witness == waits = <<20, 30, 40, 40>>

\* C20, as stated: unless shutdown is signalled, every failed attempt and
\* every lost session is eventually followed by a new connection attempt
\* (run_connection() is entered again), and the loop has stopped only with the
\* shutdown flag set.
C20_AlwaysReattempts ==
  /\ RetryPending ~> (pc = "connecting" \/ kill_now)
  /\ [](pc = "stopped" => kill_now)

\* C20, amended: unless shutdown is signalled, every failed attempt and every
\* lost session is eventually followed by a new connection attempt or, on the
\* serial transport while the port does not exist, by the 2 s wait for the
\* port; the loop has stopped only with the shutdown flag set.
C20_ReattemptsOrWaitsForPort ==
  /\ RetryPending ~> (pc = "connecting" \/ pc = "poll" \/ kill_now)
  /\ [](pc = "stopped" => kill_now)

\* a new attempt is under way after a backoff sleep, with no shutdown signalled
C20_Witness == pc = "connecting" /\ Len(waits) >= 1 /\ ~kill_now

(***************************************************************************)
(* The haptic encoder on its own: HapticConfig objects built through the   *)
(* setters, then encoded for the serial and for the BLE transport          *)
(***************************************************************************)
\* the most setter calls made on one HapticConfig
MaxCalls == 3

\* one setter call: a = dial, b = modifier, c = strength, d = speed
HapticCall(fn, a, b, c, d) == [fn |-> fn, a |-> a, b |-> b, c |-> c, d |-> d]

HapticCalls ==
  { HapticCall("set_global", None, None, "STRONG", None),
    HapticCall("set_global", None, None, "WEAK", "SLOW"),
    HapticCall("set_global", None, None, "OFF", "MEDIUM"),
    HapticCall("set_dial", "knob", None, "STRONG", None),
    HapticCall("set_dial", "scroll", None, "OFF", None),
    HapticCall("set_dial", "wheel", None, "WEAK", None),
    HapticCall("set_dial_speed", "knob", None, None, "SLOW"),
    HapticCall("set_dial_speed", "dial", None, None, "MEDIUM"),
    HapticCall("set_combo", "knob", None, "STRONG", None),
    HapticCall("set_combo", "knob", "tall", "WEAK", None),
    HapticCall("set_combo", "scroll", "side", "OFF", None),
    HapticCall("set_combo_speed", "knob", None, None, "SLOW"),
    HapticCall("set_combo_speed", "knob", "tall", None, "MEDIUM"),
    HapticCall("set_combo_speed", "dial", "top", None, "SLOW") }

ApplyCall(h, c) ==
  CASE c.fn = "set_global" -> set_global(h, c.c, c.d)
    [] c.fn = "set_dial" -> set_dial(h, c.a, c.c)
    [] c.fn = "set_combo" -> set_combo(h, c.a, c.b, c.c)
    [] c.fn = "set_dial_speed" -> set_dial_speed(h, c.a, c.d)
    [] c.fn = "set_combo_speed" -> set_combo_speed(h, c.a, c.b, c.d)

RECURSIVE Configure(_, _)
Configure(h, calls) ==
  IF calls = << >> THEN h
  ELSE Configure(ApplyCall(h, Head(calls)), Tail(calls))

\* None, or a HapticConfig() after up to MaxCalls setter calls
HapticInputs ==
  {NoHapticConfig} \cup
  { Configure(NewHapticConfig, calls) :
      calls \in UNION { [1..n -> HapticCalls] : n \in 0..MaxCalls } }

\* the engine's fields are those of the object r
EngineIs(r) ==
  /\ profiles = r.profiles
  /\ current_profile = r.current_profile
  /\ mapping = r.mapping
  /\ capabilities = r.capabilities
  /\ controller = r.controller
  /\ global_modifier_delay = r.global_modifier_delay
  /\ modifier_delay = r.modifier_delay
  /\ modifier_buttons = r.modifier_buttons
  /\ modifier_mappings = r.modifier_mappings
  /\ modifier_base_actions = r.modifier_base_actions
  /\ active_modifiers = r.active_modifiers
  /\ base_action_active = r.base_action_active
  /\ combo_used = r.combo_used
  /\ active_button_events = r.active_button_events
  /\ active_combo_events = r.active_combo_events
  /\ double_click_first_press = r.double_click_first_press
  /\ double_click_active_events = r.double_click_active_events
  /\ on_release_pending = r.on_release_pending
  /\ on_release_combo_pending = r.on_release_combo_pending
  /\ on_release_modifier_pending = r.on_release_modifier_pending

\* nothing observed of the engine yet
GhostIdle ==
  /\ held = {}
  /\ out = << >>
  /\ key_down = {}
  /\ track = EmptyDict
  /\ closed = NoCycle
  /\ resets = 0

InitHaptic ==
  /\ phase = "init"
  /\ connected = FALSE
  /\ EngineIs(Constructed(0))
  /\ GhostIdle
  /\ last = Op("construct", FALSE)
  /\ LoopIdle
  /\ haptic_config \in HapticInputs
  /\ config_message = << >>
  /\ config_commands = << >>
  /\ wire = << >>
  /\ sending = EmptyDict
  /\ TasksIdle

\* build_config_message_usb(haptic_config)
BuildMessageUsb ==
  /\ config_message = << >>
  /\ config_message' = build_config_message_usb(haptic_config)
  /\ UNCHANGED <<phase, connected, store, tables, session, ghost, transport, pc,
                 kill_now, reconnect_delay, should_retry, port_exists, waits,
                 haptic_config, config_commands, wire, sending, tasks>>

\* build_config_commands(haptic_config)
BuildCommands ==
  /\ config_commands = << >>
  /\ config_commands' = build_config_commands(haptic_config)
  /\ UNCHANGED <<phase, connected, store, tables, session, ghost, transport, pc,
                 kill_now, reconnect_delay, should_retry, port_exists, waits,
                 haptic_config, config_message, wire, sending, tasks>>

NextHaptic == BuildMessageUsb \/ BuildCommands

SpecHaptic == InitHaptic /\ [][NextHaptic]_vars

\* the first of override, per-dial setting, global setting and default that is
\* present, for the pair k of the offset table
Precedence(combo, perdial, global, dflt, k) ==
  IF k \in DOMAIN combo THEN combo[k]
  ELSE IF k[1] \in DOMAIN perdial THEN perdial[k[1]]
  ELSE IF global # None THEN global
  ELSE dflt

\* the index in the message (from 1) of the pair k
ByteOf(k) == HAPTIC_BYTE_OFFSETS[k] + 1

IsOffset(i) == \E k \in DOMAIN HAPTIC_BYTE_OFFSETS : ByteOf(k) = i

\* C22: the byte of every (dial, modifier) pair of the table, the unmodified
\* pairs included, is strength | speed, where strength and speed are each the
\* pair's own override if there is one, else the dial's setting, else the
\* global setting, else OFF resp. FAST; no other pair's settings enter.
C22_HapticPrecedence ==
  (config_message # << >> /\ haptic_config # NoHapticConfig) =>
    \A k \in DOMAIN HAPTIC_BYTE_OFFSETS :
       config_message[ByteOf(k)] =
         BitOr(HapticStrength[Precedence(haptic_config.combo_settings,
                                         haptic_config.dial_settings,
                                         haptic_config.global_setting, "OFF", k)],
               HapticSpeed[Precedence(haptic_config.combo_speed_settings,
                                      haptic_config.dial_speed_settings,
                                      haptic_config.global_speed, "FAST", k)])

\* C23, as stated: the encoder starts from an all-zero template, so every byte
\* of the message whose index is not an offset of the table is 0x00.
C23_NonOffsetBytesZero ==
  config_message # << >> =>
    \A i \in 1..Len(config_message) : ~IsOffset(i) => config_message[i] = 0

\* C23, amended: the message has the 94 bytes of the fixed template; every
\* byte whose index is not an offset of the table is the template's byte
\* (header and register ids), and the template is 0x00 at every table offset.
C23_NonOffsetBytesAreTemplate ==
  /\ Len(CONFIG_MESSAGE_TEMPLATE) = 94
  /\ \A k \in DOMAIN HAPTIC_BYTE_OFFSETS : CONFIG_MESSAGE_TEMPLATE[ByteOf(k)] = 0
  /\ config_message # << >> =>
       /\ Len(config_message) = 94
       /\ \A i \in 1..94 :
            ~IsOffset(i) => config_message[i] = CONFIG_MESSAGE_TEMPLATE[i]

\* a message is built in which the knob's unmodified byte is STRONG | SLOW
C23_Witness ==
  /\ config_message # << >>
  /\ config_message[ByteOf(<<"knob", None>>)] = 10
  /\ config_message[1] = 181

\* the chunks of a command list, joined
RECURSIVE Concat(_)
Concat(chunks) ==
  IF chunks = << >> THEN << >> ELSE Head(chunks) \o Concat(Tail(chunks))

\* C24: the BLE encoding is exactly five chunks of at most 20 bytes each, and
\* their concatenation is the 94-byte serial message of the same configuration.
C24_ChunksJoinToMessage ==
  config_commands # << >> =>
    /\ Len(config_commands) = 5
    /\ \A i \in 1..5 : Len(config_commands[i]) <= 20
    /\ Concat(config_commands) = build_config_message_usb(haptic_config)
    /\ config_message # << >> => Concat(config_commands) = config_message
    /\ Len(Concat(config_commands)) = 94

\* both encodings of one configuration with a per-pair override are built
C24_Witness ==
  /\ config_commands # << >>
  /\ config_message # << >>
  /\ haptic_config # NoHapticConfig
  /\ <<"knob", "tall">> \in DOMAIN haptic_config.combo_settings

(***************************************************************************)
(* The handshake of a connection session: unlock, haptic configuration,    *)
(* then the bytes of the device, with the window poller running alongside  *)
(***************************************************************************)
\* UNLOCK_COMMAND, byte by byte
UNLOCK_COMMAND == <<85, 0, 7, 136, 148, 0, 26, 254>>

\* the haptic_config field of a profile; the profiles of Configs differ in it
ProfileHaptic(profile) ==
  IF profile = NoProfile THEN NoHapticConfig
  ELSE IF profile.name = "krita"
    THEN set_global(NewHapticConfig, "STRONG", "SLOW")
  ELSE IF profile.name = "gimp"
    THEN set_dial(NewHapticConfig, "knob", "WEAK")
  ELSE default_off

\* nothing is sent for the haptic configuration
haptic_writes_none(t, h) == << >>

\* the writes send_haptic_config makes for h: the commands one by one over
\* BLE, the whole message at once over the serial port
haptic_writes(t, h) ==
  IF t = "ble" THEN build_config_commands(h) ELSE <<build_config_message_usb(h)>>

\* one write to the device
Written(by, of, data) == [by |-> by, of |-> of, data |-> data]

\* the bytes of the device fed to the engine while the handshake is watched
HandshakeBytes == {PressByte("side"), ReleaseByte("side")}

\* the channel of this session is open: BleakClient connected / serial open
ChannelUp == pc \in {"unlocked", "configuring", "session"}

InitHandshake ==
  /\ phase = "running"
  /\ connected = FALSE
  /\ \E cfg \in Configs :
       EngineIs(start(Constructed(cfg.modifier_delay), cfg.profiles))
  /\ GhostIdle
  /\ last = Op("start", FALSE)
  /\ transport \in Transports
  /\ pc = "connecting"
  /\ kill_now = FALSE
  /\ reconnect_delay = InitialDelay
  /\ should_retry = TRUE
  /\ port_exists = TRUE
  /\ waits = << >>
  /\ DeviceIdle

\* the engine and what is observed of it stay as they are
HsEngineIdle == UNCHANGED <<phase, connected, store, tables, session, ghost>>

HsLoopIdle ==
  UNCHANGED <<transport, kill_now, reconnect_delay, should_retry, port_exists,
              waits, haptic_config, config_message, config_commands, tasks>>

\* the channel opens and, with no await in between, the unlock command is
\* written: run_connection up to unlock_device's first write (BLE), connect()
\* up to serial.write(UNLOCK_COMMAND) (serial)
HsOpen ==
  /\ phase = "running"
  /\ pc = "connecting"
  /\ pc' = "unlocked"
  /\ wire' = <<Written("handshake", None, UNLOCK_COMMAND)>>
  /\ sending' = EmptyDict
  /\ last' = Op("open", FALSE)
  /\ UNCHANGED <<phase, connected, store, tables, session, held, out, key_down,
                 track, closed, resets>>
  /\ HsLoopIdle

\* after the sleep that follows the unlock: send_haptic_config reads the
\* current profile, builds its message and makes the first write
HsReadConfig ==
  /\ pc = "unlocked"
  /\ pc' = "configuring"
  /\ \E cmds \in {haptic_writes(transport, ProfileHaptic(current_profile))} :
       IF cmds = << >>
         THEN /\ wire' = wire
              /\ sending' = Put(sending, "handshake",
                                [of |-> current_profile.name, rest |-> << >>])
         ELSE /\ wire' = Append(wire, Written("handshake", current_profile.name,
                                              Head(cmds)))
              /\ sending' = Put(sending, "handshake",
                                [of |-> current_profile.name, rest |-> Tail(cmds)])
  /\ HsEngineIdle
  /\ HsLoopIdle

\* the next command of the loop in send_haptic_config, task being the
\* handshake or the window poller
NextWrite(task) ==
  /\ ChannelUp
  /\ task \in DOMAIN sending
  /\ sending[task].rest # << >>
  /\ wire' = Append(wire, Written(task, sending[task].of, Head(sending[task].rest)))
  /\ sending' = IF task = "poller" /\ Tail(sending[task].rest) = << >>
                  THEN Del(sending, task)
                  ELSE Put(sending, task, [of |-> sending[task].of,
                                           rest |-> Tail(sending[task].rest)])
  /\ UNCHANGED pc
  /\ HsEngineIdle
  /\ HsLoopIdle

\* send_haptic_config has returned: start_notify registers the notification
\* handler (BLE), run_connection creates the read task (serial)
HsReady ==
  /\ pc = "configuring"
  /\ sending["handshake"].rest = << >>
  /\ pc' = "session"
  /\ sending' = Del(sending, "handshake")
  /\ connected' = TRUE
  /\ last' = Op("connect", FALSE)
  /\ out' = << >>
  /\ closed' = NoCycle
  /\ UNCHANGED <<phase, store, tables, session, held, key_down, track, resets,
                 wire>>
  /\ HsLoopIdle

\* a write or the channel fails during the handshake: the attempt is over and
\* the loop comes back to connect; a handle that has failed keeps failing, so
\* nothing more is written on it
HsFail ==
  /\ pc \in {"unlocked", "configuring"}
  /\ pc' = "connecting"
  /\ sending' = EmptyDict
  /\ UNCHANGED wire
  /\ HsEngineIdle
  /\ HsLoopIdle

\* the session ends: disconnection_handler (BLE), end of run_connection (serial)
HsSessionEnd ==
  /\ pc = "session"
  /\ resets < MaxResets
  /\ pc' = "connecting"
  /\ sending' = EmptyDict
  /\ connected' = FALSE
  /\ \E r \in {clear_modifier_state(Self)} : Apply(r) /\ out' = r.out
  /\ last' = AdminOp("disconnect", FALSE)
  /\ track' = Interrupt(track, "disconnect")
  /\ closed' = NoCycle
  /\ resets' = resets + 1
  /\ UNCHANGED <<phase, held, wire>>
  /\ HsLoopIdle

\* the poller sees a window: on_window_change, and send_haptic_config when the
\* current profile has changed; the poller awaits its callback, so it sees no
\* window while its own send is under way
HsWindowChange(window_info) ==
  /\ phase = "running"
  /\ "poller" \notin DOMAIN sending
  /\ WindowTarget(Self, window_info) # NoProfile => resets < MaxResets
  /\ \E r \in {on_window_change(Self, window_info)} :
       /\ Apply(r)
       /\ out' = r.out
       /\ \E cmds \in {haptic_writes(transport, ProfileHaptic(r.current_profile))} :
            IF r.current_profile # current_profile /\ ChannelUp /\ cmds # << >>
              THEN /\ wire' = Append(wire, Written("poller", r.current_profile.name,
                                                   Head(cmds)))
                   /\ sending' = IF Tail(cmds) = << >> THEN sending
                                 ELSE Put(sending, "poller",
                                          [of |-> r.current_profile.name,
                                           rest |-> Tail(cmds)])
              ELSE UNCHANGED <<wire, sending>>
  /\ last' = IF WindowTarget(Self, window_info) = NoProfile
               THEN Op("window", TRUE) ELSE AdminOp("switch", FALSE)
  /\ track' = IF WindowTarget(Self, window_info) = NoProfile THEN track
              ELSE Interrupt(track, "switch")
  /\ closed' = NoCycle
  /\ resets' = IF WindowTarget(Self, window_info) = NoProfile THEN resets
               ELSE resets + 1
  /\ UNCHANGED <<phase, connected, held, pc>>
  /\ HsLoopIdle

NextHandshake ==
  \/ HsOpen
  \/ HsReadConfig
  \/ \E task \in {"handshake", "poller"} : NextWrite(task)
  \/ HsReady
  \/ HsFail
  \/ HsSessionEnd
  \/ \E w \in Windows : HsWindowChange(w)
  \/ \E data \in HandshakeBytes : ProcessByte(data, FALSE)

SpecHandshake == InitHandshake /\ [][NextHandshake]_vars

\* the data of the writes of one task, joined
DataOf(log, task) ==
  Concat([i \in 1..Len(SelectSeq(log, LAMBDA e : e.by = task /\ e.of # None)) |->
            SelectSeq(log, LAMBDA e : e.by = task /\ e.of # None)[i].data])

\* the handshake of this session has written the unlock command and then the
\* whole haptic message of the profile it read
HandshakeWritten ==
  /\ wire # << >>
  /\ wire[1].data = UNLOCK_COMMAND
  /\ \E i \in 2..Len(wire) :
       /\ wire[i].by = "handshake"
       /\ \E q \in 1..Len(profiles) :
            /\ profiles[q].name = wire[i].of
            /\ DataOf(wire, "handshake") =
                 build_config_message(ProfileHaptic(profiles[q]))

\* the writes of the session are in order and no byte came too early
HandshakeOrdered ==
  /\ \A i \in 1..Len(wire) :
        wire[i].data # UNLOCK_COMMAND =>
          \E j \in 1..(i - 1) : wire[j].data = UNLOCK_COMMAND
  /\ pc = "session" => HandshakeWritten
  /\ connected => pc = "session"
  /\ last.op = "byte" => HandshakeWritten

\* C21: in every connection session, on both transports, the unlock command
\* is written before any haptic configuration bytes; the haptic configuration
\* the handshake writes is that of the profile current when it is read, and
\* it has been written in full when the session is Ready; and a byte of the
\* device reaches the engine only after both writes.
C21_HandshakeOrder ==
  /\ []HandshakeOrdered
  /\ [][(pc = "unlocked" /\ pc' = "configuring") =>
          /\ wire'[Len(wire')].of = current_profile.name
          /\ sending'["handshake"].of = current_profile.name]_vars

\* over BLE a byte has been processed in a session during whose handshake the
\* poller switched the profile and wrote that profile's configuration too
C21_Witness ==
  /\ transport = "ble"
  /\ last.op = "byte"
  /\ pc = "session"
  /\ \E i \in 1..Len(wire), j \in 1..Len(wire) :
        /\ i < j
        /\ wire[i].by = "poller"
        /\ wire[j].by = "handshake"

(***************************************************************************)
(* Bytes outside the code table, fed to a driver whose tables are loaded   *)
(***************************************************************************)
\* bytes that are in no entry of BUTTON_CODES
UnknownBytes == {UnknownByte, 100}

\* process_button_code for a byte that is no Press and no Release code
ProcessUnknownByte(data) ==
  /\ phase = "running"
  /\ connected
  /\ \A c \in Controls : data \notin {PressByte(c), ReleaseByte(c)}
  /\ \E r \in {process_button_code(Self, data, FALSE)} :
       /\ Apply(r)
       /\ out' = r.out
  /\ last' = Op("unknown_byte", FALSE)
  /\ closed' = NoCycle
  /\ UNCHANGED <<link, phase, connected, held, track, resets>>

NextDecode ==
  \/ Connect
  \/ Disconnect
  \/ \E i \in 1..Len(profiles) : SwitchProfile(profiles[i])
  \/ \E data \in Bytes \ UnknownBytes, fast \in BOOLEAN :
        /\ fast => TimeIsRead(data)
        /\ ProcessByteEmitting(data, fast)
  \/ \E data \in UnknownBytes : ProcessUnknownByte(data)

SpecDecode == InitLoaded /\ [][NextDecode]_vars

\* C25: a byte that is not in the control code table emits no output event
\* and leaves every SessionState container, the current profile and the
\* engine's tables as they were.
C25_UnknownByteIgnored ==
  [][last'.op = "unknown_byte" =>
       /\ out' = << >>
       /\ UNCHANGED <<session, store, tables, key_down>>]_vars

\* an unknown byte has been processed while a modifier was held and a
\* button's press events were tracked
C25_Witness ==
  /\ last.op = "unknown_byte"
  /\ active_modifiers # {}
  /\ active_button_events # EmptyDict

(***************************************************************************)
(* Window matching over the profile lists the two loaders return           *)
(***************************************************************************)
\* the most profiles in one configuration and the most switches watched
MaxProfiles == 3
MaxSwitches == 2

\* two enabled profiles that both match an xterm window, a disabled one that
\* matches GIMP, and a default profile with and without a matcher
SecAlpha ==
  [SecKrita EXCEPT !.name = "alpha", !.window_class = None, !.app_id = "xterm"]
SecZeta ==
  [SecGimp EXCEPT !.name = "zeta", !.app_id = None, !.window_class = "xterm"]
SecOff == [SecGimp EXCEPT !.name = "off", !.enabled = FALSE]
SecDefaultXterm == [SecDefault EXCEPT !.window_title = <<"xterm">>]

WindowSecs == {SecAlpha, SecZeta, SecOff, SecDefault, SecDefaultXterm}

\* the sections of a file in file order / the .profile files in iterdir order
WindowLoads ==
  { f \in UNION { [1..n -> WindowSecs] : n \in 1..MaxProfiles } :
      \A i, j \in 1..Len(f) : f[i].name = f[j].name => i = j }

\* Python's order of the profile names (file stems) in use
StemRank ==
  [n \in {"alpha", "default", "off", "zeta"} |->
     CASE n = "alpha" -> 1 [] n = "default" -> 2 [] n = "off" -> 3 [] n = "zeta" -> 4]

\* sort_key of discover_profiles: ('', stem) for default, ('z', stem) otherwise
sort_key(p) == IF p.name = "default" THEN <<0, StemRank[p.name]>>
               ELSE <<1, StemRank[p.name]>>

KeyLess(a, b) == a[1] < b[1] \/ (a[1] = b[1] /\ a[2] < b[2])

\* sorted(files, key=sort_key)
discover_profiles(files) ==
  LET n == Len(files)
      pos(i) == 1 + Cardinality({j \in 1..n :
                       \/ KeyLess(sort_key(files[j]), sort_key(files[i]))
                       \/ (sort_key(files[j]) = sort_key(files[i]) /\ j < i)})
  IN  [k \in 1..n |-> files[CHOOSE i \in 1..n : pos(i) = k]]

\* load_profile_from_file: the [modifiers] section of a .profile file is
\* parsed by the loader's own two passes, the other sections as above
load_profile_from_file(sec) ==
  LET buttons == sec.modifiers \ INVALID_MODIFIER_CONTROLS
      combos ==
        [k \in {q \in DOMAIN sec.combos :
                  q[1] \in buttons /\ q[2] # "base_action"} |-> sec.combos[k]]
      base_actions ==
        [m \in (DOMAIN sec.base) \cap buttons |-> sec.base[m]]
      loaded == LoadProfile(sec)
  IN  [loaded EXCEPT
         !.modifier_mappings = combos,
         !.capabilities =
           AddActionCaps(get_capabilities_from_mapping(loaded.mapping),
                         Range(combos) \cup Range(base_actions))]

\* load_profiles: the profiles directory, or the sections of the legacy file
load_profiles(loader, secs) ==
  IF loader = "directory"
    THEN [i \in 1..Len(secs) |-> load_profile_from_file(discover_profiles(secs)[i])]
    ELSE [i \in 1..Len(secs) |-> LoadProfile(secs[i])]

InitWindow ==
  /\ phase = "running"
  /\ connected = TRUE
  /\ \E secs \in WindowLoads, loader \in {"directory", "legacy"} :
       EngineIs(start(Constructed(0), load_profiles(loader, secs)))
  /\ GhostIdle
  /\ last = Op("start", FALSE)
  /\ LinkIdle

\* the poller hands a window to on_window_change
ObserveWindow(window_info) ==
  /\ phase = "running"
  /\ WindowTarget(Self, window_info) # NoProfile => resets < MaxSwitches
  /\ \E r \in {on_window_change(Self, window_info)} : Apply(r) /\ out' = r.out
  /\ last' = [op |-> "observe", same |-> WindowTarget(Self, window_info) = NoProfile,
              dirty |-> FALSE, seen |-> window_info]
  /\ track' = track
  /\ closed' = NoCycle
  /\ resets' = IF WindowTarget(Self, window_info) = NoProfile THEN resets
               ELSE resets + 1
  /\ UNCHANGED <<link, phase, connected, held>>

NextWindow == \E w \in Windows : ObserveWindow(w)

SpecWindow == InitWindow /\ [][NextWindow]_vars

\* a matcher of the profile equals the window's app_id or class, or its title
\* pattern occurs in the window's title, all without regard to case
Hits(profile, window_info) ==
  \/ /\ profile.app_id # None /\ window_info.app_id # None
     /\ Lower(window_info.app_id) = Lower(profile.app_id)
  \/ /\ profile.window_class # None /\ window_info.wm_class # None
     /\ Lower(window_info.wm_class) = Lower(profile.window_class)
  \/ /\ profile.window_title # << >> /\ window_info.title # << >>
     /\ IsSubstring(LowerSeq(profile.window_title), LowerSeq(window_info.title))

\* the enabled profiles of the list that match the window, by position
EnabledHits(plist, window_info) ==
  {i \in 1..Len(plist) : plist[i].enabled /\ Hits(plist[i], window_info)}

\* C26: after an observation of a window that no enabled profile matches, the
\* current profile is the one named default whenever the list has one.
C26_NoMatchFallsToDefault ==
  [][(/\ last'.op = "observe"
      /\ EnabledHits(profiles, last'.seen) = {}
      /\ \E i \in 1..Len(profiles) : profiles[i].name = "default")
       => current_profile' = FirstNamed(profiles, "default", NoProfile)]_vars

\* a window nothing matches was observed while another profile was current,
\* and the driver switched to default
C26_Witness ==
  /\ last.op = "observe"
  /\ ~last.same
  /\ EnabledHits(profiles, last.seen) = {}
  /\ \A i \in 1..Len(profiles) : ~Hits(profiles[i], last.seen)
  /\ current_profile.name = "default"

\* C27: an observation never makes a disabled profile other than default the
\* current profile.
C27_DisabledNeverSelected ==
  [][last'.op = "observe" =>
       \/ current_profile' = current_profile
       \/ current_profile'.enabled
       \/ current_profile'.name = "default"]_vars

\* the window of a disabled profile was observed while an enabled profile
\* other than default was current, and the driver switched away from it
C27_Witness ==
  /\ last.op = "observe"
  /\ ~last.same
  /\ \E i \in 1..Len(profiles) :
        /\ ~profiles[i].enabled
        /\ profiles[i].name # "default"
        /\ Hits(profiles[i], last.seen)
        /\ current_profile # profiles[i]

\* the place of a profile in the order of the claim: by name, default last
claimed_key(p) == IF p.name = "default" THEN <<1, StemRank[p.name]>>
                  ELSE <<0, StemRank[p.name]>>

\* C28: when several enabled profiles match the observed window, the current
\* profile becomes the first of them in name order with default after all
\* others, whatever the order in which the profiles were loaded.
C28_FirstByNameWins ==
  [][last'.op = "observe" =>
       \A i \in EnabledHits(profiles, last'.seen) :
          (/\ Cardinality(EnabledHits(profiles, last'.seen)) >= 2
           /\ \A j \in EnabledHits(profiles, last'.seen) \ {i} :
                 KeyLess(claimed_key(profiles[i]), claimed_key(profiles[j])))
            => current_profile' = profiles[i]]_vars

(***************************************************************************)
(* The virtual output device when UInput() can raise                       *)
(***************************************************************************)
\* what self.controller refers to after close() was called and UInput()
\* raised: the old object, closed
StaleController(c) == [open |-> FALSE, caps |-> c.caps, stale |-> TRUE]

IsStale(c) == "stale" \in DOMAIN c

\* the object after an operation that closed the device and then raised in
\* UInput(): every assignment of the operation made, no new device
create_fails(s, r) ==
  [r EXCEPT !.controller = StaleController(s.controller),
            !.dev_ops = IF s.controller.open THEN <<"close">> ELSE << >>]

\* the bytes fed while the output device is watched
DeviceBytes == {PressByte("side"), ReleaseByte("side"), PressByte("knob_cw")}

\* start() when create_virtual_device raises: the exception leaves start()
\* and the process ends
StartCreateFails(cfg) ==
  /\ phase = "init"
  /\ cfg.profiles # << >>
  /\ cfg.modifier_delay = global_modifier_delay
  /\ \E r \in {[start(Self, cfg.profiles) EXCEPT !.controller = NoController,
                                                   !.dev_ops = << >>]} :
       Apply(r)
  /\ out' = << >>
  /\ phase' = "exited"
  /\ last' = Op("create_failed", FALSE)
  /\ closed' = NoCycle
  /\ UNCHANGED <<link, connected, held, track, resets>>

\* on_window_change when switch_profile closes the device and UInput() raises:
\* the exception leaves on_window_change and is logged by the poller's loop
OnWindowChangeCreateFails(window_info) ==
  /\ phase = "running"
  /\ resets < MaxResets
  /\ WindowTarget(Self, window_info) # NoProfile
  /\ WindowTarget(Self, window_info).capabilities # capabilities
  /\ \E r \in {create_fails(Self, on_window_change(Self, window_info))} :
       Apply(r) /\ out' = r.out
  /\ last' = AdminOp("create_failed", FALSE)
  /\ track' = Interrupt(track, "switch")
  /\ closed' = NoCycle
  /\ resets' = resets + 1
  /\ UNCHANGED <<link, phase, connected, held>>

\* reload_config_mappings when it closes the device and UInput() raises: the
\* exception is caught and logged by reload_config_mappings itself
ReloadCreateFails(cfg) ==
  /\ phase = "running"
  /\ resets < MaxResets
  /\ cfg.profiles # << >>
  /\ reload_config_mappings(Self, cfg.profiles, cfg.modifier_delay).capabilities
       # capabilities
  /\ \E r \in {create_fails(Self, reload_config_mappings(Self, cfg.profiles,
                                                         cfg.modifier_delay))} :
       Apply(r) /\ out' = r.out
  /\ last' = AdminOp("create_failed", FALSE)
  /\ track' = Interrupt(track, "reload")
  /\ closed' = NoCycle
  /\ resets' = resets + 1
  /\ UNCHANGED <<link, phase, connected, held>>

\* process_button_code while self.controller is the closed device: a write
\* raises; taken for the bytes whose handling changes no container, so that
\* the object is the same wherever the exception comes
ProcessByteDeviceClosed(data) ==
  /\ phase = "running"
  /\ connected
  /\ IsStale(controller)
  /\ get_control_name_from_code(data)[1] \in ROTARY_CONTROLS
  /\ SessionOf(process_button_code(Self, data, FALSE)) = SessionOf(Self)
  /\ last' = Op("byte", FALSE)
  /\ out' = << >>
  /\ UNCHANGED <<link, phase, connected, store, tables, session, held, key_down,
                 track, closed, resets>>

NextDevice ==
  \/ \E cfg \in Configs : Start(cfg)
  \/ \E cfg \in Configs : StartCreateFails(cfg)
  \/ Connect
  \/ Disconnect
  \/ \E w \in Windows : OnWindowChange(w)
  \/ \E w \in Windows : OnWindowChangeCreateFails(w)
  \/ \E cfg \in Configs : Reload(cfg)
  \/ \E cfg \in Configs : ReloadCreateFails(cfg)
  \/ \E data \in DeviceBytes : controller.open /\ ProcessByte(data, FALSE)
  \/ \E data \in DeviceBytes : ProcessByteDeviceClosed(data)

SpecDevice == Init /\ [][NextDevice]_vars

\* C29: wherever the creation of the virtual output device fails, at startup
\* or when a switch or a reload closes it and creates it anew, the driver
\* terminates; no byte is processed while the output device is closed or
\* missing.
C29_CreationFailureFatal ==
  /\ [][last'.op = "create_failed" => phase' = "exited"]_vars
  /\ [](last.op = "byte" => controller.open)

(***************************************************************************)
(* The tasks of the event loop around process_button_code: the receive     *)
(* task, the window poller, the reload check and the disconnect callback   *)
(***************************************************************************)
\* the most bytes that arrive in one session
MaxArrivals == 3

\* the wait inside the handler gives the event loop to other tasks
send_events_awaits == TRUE

\* process_button_code and _send_events are plain functions and the modifier
\* delay is time.sleep(): the event loop runs nothing else until they return
send_events_yields == FALSE

\* the event loop can run another task or callback
LoopFree == busy = << >> \/ send_events_yields

TaskBytes == {PressByte(c) : c \in {"side", "tall"}}
               \cup {ReleaseByte(c) : c \in {"side", "tall"}}

\* the buttons that are down after the bytes of seq, starting from down
RECURSIVE HeldAfter(_, _)
HeldAfter(down, seq) ==
  IF seq = << >> THEN down
  ELSE LET ci == get_control_name_from_code(Head(seq))
       IN  HeldAfter(IF ci = << >> \/ ci[1] \in ROTARY_CONTROLS THEN down
                     ELSE IF ci[2] THEN down \cup {ci[1]}
                     ELSE down \ {ci[1]},
                     Tail(seq))

\* the device sends a byte: it waits in the BLE notification queue or the
\* serial buffer until the event loop takes it
Arrive(data) ==
  /\ phase = "running"
  /\ connected
  /\ Len(arrived) < MaxArrivals
  /\ LET ci == get_control_name_from_code(data)
     IN  (ci[1] \in HeldAfter(held, busy \o inbox)) = ~ci[2]
  /\ inbox' = Append(inbox, data)
  /\ arrived' = Append(arrived, data)
  /\ UNCHANGED <<phase, connected, store, tables, session, ghost, transport, pc,
                 kill_now, reconnect_delay, should_retry, port_exists, waits,
                 device, handled, busy, runtime, history, signals>>

\* notification_handler / _read_loop hands the next byte to
\* process_button_code
ByteBegin ==
  /\ phase = "running"
  /\ connected
  /\ LoopFree
  /\ inbox # << >>
  /\ busy' = Append(busy, Head(inbox))
  /\ inbox' = Tail(inbox)
  /\ UNCHANGED <<phase, connected, store, tables, session, ghost, transport, pc,
                 kill_now, reconnect_delay, should_retry, port_exists, waits,
                 device, arrived, handled, runtime, history, signals>>

\* process_button_code returns, the inline modifier delay included
ByteEnd ==
  /\ busy # << >>
  /\ LET ci == get_control_name_from_code(Head(busy))
     IN  held' = IF ci[2] THEN held \cup {ci[1]} ELSE held \ {ci[1]}
  /\ \E r \in {process_button_code(Self, Head(busy), FALSE)} :
       Apply(r) /\ out' = r.out
  /\ last' = Op("byte", FALSE)
  /\ handled' = Append(handled, Head(busy))
  /\ busy' = Tail(busy)
  /\ UNCHANGED <<phase, connected, track, closed, resets, transport, pc, kill_now,
                 reconnect_delay, should_retry, port_exists, waits, device,
                 inbox, arrived, runtime, history, signals>>

\* the disconnect callback / the end of the serial session: what waited in
\* the queue is gone with the session
TaskDisconnect ==
  /\ phase = "running"
  /\ LoopFree
  /\ resets < MaxResets
  /\ connected
  /\ connected' = FALSE
  /\ \E r \in {clear_modifier_state(Self)} : Apply(r) /\ out' = r.out
  /\ last' = AdminOp("disconnect", FALSE)
  /\ track' = Interrupt(track, "disconnect")
  /\ closed' = NoCycle
  /\ resets' = resets + 1
  /\ held' = HeldAfter(held, inbox)
  /\ inbox' = << >>
  /\ arrived' = busy
  /\ handled' = << >>
  /\ UNCHANGED <<phase, transport, pc, kill_now, reconnect_delay, should_retry,
                 port_exists, waits, device, busy, runtime, history, signals>>

NextTasks ==
  \/ \E data \in TaskBytes : Arrive(data)
  \/ ByteBegin
  \/ ByteEnd
  \/ Connect
  \/ TaskDisconnect
  \/ \E w \in Windows : LoopFree /\ OnWindowChange(w)
  \/ \E cfg \in Configs : LoopFree /\ Reload(cfg)

SpecTasks == InitLoaded /\ [][NextTasks]_vars

\* C30: the engine never works on two bytes at once; while it works on a
\* byte, the modifier-delay wait included, no switch, reload or clear changes
\* the profile, the tables or the SessionState; and the bytes are processed in
\* the order in which they arrived.
C30_ByteProcessingAtomic ==
  /\ [](Len(busy) <= 1)
  /\ [](handled \o busy \o inbox = arrived)
  /\ [][(busy # << >> /\ busy' = busy) => UNCHANGED <<store, tables, session>>]_vars

\* a byte whose events are split by the modifier delay is being processed
\* while another byte waits and an earlier one is done
C30_Witness ==
  /\ busy # << >>
  /\ handled # << >>
  /\ inbox # << >>
  /\ modifier_delay > 0
  /\ Head(busy) \in DOMAIN mapping
  /\ \E i, j \in 1..Len(mapping[Head(busy)]) :
        /\ IsModifierPress(mapping[Head(busy)][i])
        /\ IsOther(mapping[Head(busy)][j])

(***************************************************************************)
(* start() from the connection loop to its finally block: the window       *)
(* poller, the receive side, the channel and the output device             *)
(***************************************************************************)
\* task.cancel() with the await that follows it, the request dropped
cancel_ignored(task) == task

\* task.cancel() with the await that follows it: CancelledError is no
\* Exception, so neither the poller's nor the read loop's handler keeps the
\* task alive
cancel(task) == IF task = "running" THEN "cancelled" ELSE task

\* start() has created the output device and, with profiles and a known
\* compositor, the window poller; the loop is about to run
InitShutdown ==
  /\ phase = "running"
  /\ connected = FALSE
  /\ \E cfg \in Configs :
       \E r \in {start(Constructed(cfg.modifier_delay), cfg.profiles),
                 Loaded(cfg)} : EngineIs(r)
  /\ GhostIdle
  /\ last = Op("start", FALSE)
  /\ transport \in Transports
  /\ pc = "top"
  /\ kill_now = FALSE
  /\ reconnect_delay = InitialDelay
  /\ should_retry = TRUE
  /\ port_exists \in BOOLEAN
  /\ waits = << >>
  /\ WritesIdle
  /\ QueuesIdle
  /\ HistoryIdle
  /\ monitor_task \in {"none", "running"}
  /\ read_task = "none"
  /\ channel = "closed"

\* the loop's own steps leave the engine, the writes and the queues alone
ShutIdle ==
  UNCHANGED <<phase, tables, ghost, device, inbox, arrived, handled, busy,
              monitor_task, history, signals>>

\* run_connection() up to the session loop.  BLE: the client is opened by
\* "async with", which closes it again when the block is left.  Serial:
\* connect() returns False with the port it has opened left open, a raise in
\* run_connection() goes through disconnect(), and the read task is created
\* once connect() has returned True
ShutAttempt(outcome) ==
  /\ pc = "connecting"
  /\ outcome \in AttemptOutcomes(transport)
  /\ (transport = "usb" /\ outcome = "ready") => port_exists
  /\ IF outcome = "ready"
       THEN /\ reconnect_delay' = ready_delay(reconnect_delay)
            /\ waits' = << >>
            /\ connected' = TRUE
            /\ pc' = "session"
            /\ channel' = "open"
            /\ read_task' = IF transport = "usb" THEN "running" ELSE read_task
            /\ UNCHANGED should_retry
       ELSE /\ should_retry' = run_connection_returns(outcome, kill_now)
            /\ pc' = "returned"
            /\ channel' \in IF transport = "usb" /\ outcome = "refused"
                              THEN IF port_exists THEN {channel, "open"}
                                   ELSE {channel}
                              ELSE {"closed"}
            /\ read_task' = cancel(read_task)
            /\ UNCHANGED <<reconnect_delay, waits, connected>>
  /\ UNCHANGED <<transport, kill_now, port_exists, store, session>>
  /\ ShutIdle

\* the session loop ends.  BLE: leaving "async with" disconnects the client,
\* whose disconnected_callback clears the modifier state.  Serial:
\* disconnect() cancels the read task and closes the port, and a lost device
\* is followed by clear_modifier_state()
ShutSessionEnd(how) ==
  /\ pc = "session"
  /\ how \in SessionEnds
  /\ how = "killed" => kill_now
  /\ should_retry' = run_connection_returns(how, kill_now)
  /\ connected' = FALSE
  /\ pc' = "returned"
  /\ channel' = "closed"
  /\ read_task' = cancel(read_task)
  /\ IF transport = "ble" \/ (how = "lost" /\ ~kill_now)
       THEN \E r \in {clear_modifier_state(Self)} : Apply(r) /\ out' = r.out
       ELSE UNCHANGED <<store, session, out, key_down>>
  /\ UNCHANGED <<transport, kill_now, reconnect_delay, port_exists, waits>>
  /\ UNCHANGED <<phase, tables, held, track, closed, last, resets, device, inbox,
                 arrived, handled, busy, monitor_task, history, signals>>

\* finally: if monitor_task: monitor_task.cancel(); await monitor_task
FinallyCancel ==
  /\ pc = "stopped"
  /\ monitor_task' = cancel(monitor_task)
  /\ pc' = "cancelled"
  /\ UNCHANGED <<transport, kill_now, reconnect_delay, should_retry, port_exists,
                 waits, connected, read_task, channel, store, session>>
  /\ UNCHANGED <<phase, tables, ghost, device, inbox, arrived, handled, busy,
                 history, signals>>

\* finally, serial transport only: await self.disconnect()
FinallyDisconnect ==
  /\ pc = "cancelled"
  /\ transport = "usb"
  /\ connected' = FALSE
  /\ read_task' = cancel(read_task)
  /\ channel' = "closed"
  /\ pc' = "released"
  /\ UNCHANGED <<transport, kill_now, reconnect_delay, should_retry, port_exists,
                 waits, store, session>>
  /\ ShutIdle

\* finally: self.cleanup(), which closes the output device
FinallyCleanup ==
  /\ pc = IF transport = "usb" THEN "released" ELSE "cancelled"
  /\ controller' = NoController
  /\ key_down' = {}
  /\ pc' = "exited"
  /\ UNCHANGED <<transport, kill_now, reconnect_delay, should_retry, port_exists,
                 waits, connected, read_task, channel, session, profiles,
                 current_profile, capabilities, global_modifier_delay>>
  /\ UNCHANGED <<phase, tables, held, out, track, closed, last, resets, device,
                 inbox, arrived, handled, busy, monitor_task, history, signals>>

\* a byte reaches process_button_code: through the notification handler
\* while the client is connected, or through the read task while it runs
ShutByte(data) ==
  /\ IF transport = "usb" THEN read_task = "running" ELSE channel = "open"
  /\ ProcessByte(data, FALSE)

\* the window poller, while its task runs, reports an observation
ShutWindow(w) ==
  /\ monitor_task = "running"
  /\ OnWindowChange(w)

ShutBytes == {PressByte("side"), ReleaseByte("side")}

NextShutdown ==
  \/ LoopTop
  \/ PortWait
  \/ \E outcome \in AttemptOutcomes(transport) : ShutAttempt(outcome)
  \/ \E how \in SessionEnds : ShutSessionEnd(how)
  \/ AfterReturn
  \/ BackoffDone
  \/ Shutdown
  \/ pc \notin {"cancelled", "released", "exited"} /\ PortChange
  \/ FinallyCancel
  \/ FinallyDisconnect
  \/ FinallyCleanup
  \/ \E data \in ShutBytes : ShutByte(data)
  \/ \E w \in Windows : ShutWindow(w)

\* the event loop keeps running the driver's own steps: sleeps end, the scan
\* and the connect have timeouts, a set shutdown flag is seen within 0.5 s,
\* and an awaited cancelled task ends
SpecShutdown ==
  /\ InitShutdown
  /\ [][NextShutdown]_vars
  /\ WF_vars(LoopTop)
  /\ WF_vars(PortWait)
  /\ WF_vars(\E outcome \in AttemptOutcomes(transport) : ShutAttempt(outcome))
  /\ WF_vars(ShutSessionEnd("killed"))
  /\ WF_vars(AfterReturn)
  /\ WF_vars(BackoffDone)
  /\ WF_vars(FinallyCancel)
  /\ WF_vars(FinallyDisconnect)
  /\ WF_vars(FinallyCleanup)

\* nothing of the driver is left running or open
Released ==
  /\ monitor_task # "running"
  /\ read_task # "running"
  /\ channel = "closed"
  /\ ~controller.open

\* C31: once the shutdown flag is set, start() eventually returns; when it
\* has returned the window poller is cancelled, the receive loop is stopped,
\* the channel is released and the output device is closed; and once the
\* output device is closed no byte is processed and no profile is switched.
C31_ShutdownClean ==
  /\ kill_now ~> pc = "exited"
  /\ [](pc = "exited" => Released)
  /\ [][~controller.open => UNCHANGED <<held, store, tables, session>>]_vars

\* the serial driver has returned from start() after a shutdown that found a
\* button held down and the poller running
C31_Witness ==
  /\ pc = "exited"
  /\ transport = "usb"
  /\ monitor_task = "cancelled"
  /\ read_task = "cancelled"
  /\ held # {}
  /\ Released

(***************************************************************************)
(* The two profile loaders on modifier sections                            *)
(***************************************************************************)
\* the "modifier.control = ACTION" keys a section can hold
ComboKeys == {<<"tall", "side">>, <<"tall", "tall">>, <<"side", "side">>,
              <<"side", "top">>}

\* sections that declare tall, side or both as modifiers, with any of the
\* keys above; a control declared a modifier has no action of its own
ComboSecs ==
  { [SecDefault EXCEPT
       !.modifiers = ms,
       !.actions = [c \in (DOMAIN SecDefault.actions) \ ms |->
                      SecDefault.actions[c]],
       !.base = [m \in (DOMAIN SecDefault.base) \cap ms |-> SecDefault.base[m]],
       !.combos = [q \in qs |-> <<K("KEY_A")>>]] :
      ms \in (SUBSET {"tall", "side"}) \ {{}}, qs \in SUBSET ComboKeys }

Loaders == {"directory", "legacy"}

\* start() with one profile, from the profiles directory or the legacy file
InitProfiles ==
  /\ phase = "running"
  /\ connected = TRUE
  /\ \E sec \in ComboSecs, loader \in Loaders :
       EngineIs(start(Constructed(0), load_profiles(loader, <<sec>>)))
  /\ GhostIdle
  /\ last = Op("start", FALSE)
  /\ LinkIdle

ComboBytes == {PressByte(c) : c \in {"side", "tall"}}
                \cup {ReleaseByte(c) : c \in {"side", "tall"}}

NextProfiles ==
  \/ \E sec \in ComboSecs, loader \in Loaders :
        Reload([profiles |-> load_profiles(loader, <<sec>>), modifier_delay |-> 0])
  \/ \E data \in ComboBytes : ProcessByte(data, FALSE)

SpecProfiles == InitProfiles /\ [][NextProfiles]_vars

\* C32: no profile the driver has loaded, through either loader, has a combo
\* (M, M) of a modifier with itself.
C32_NoSelfCombo ==
  \A i \in 1..Len(profiles) :
     \A q \in DOMAIN profiles[i].modifier_mappings : q[1] # q[2]

(***************************************************************************)
(* Runs of bytes through process_button_code, each byte kept with the      *)
(* events it wrote                                                         *)
(***************************************************************************)
\* the bytes kept, the newest last
MaxHistory == 4

\* the gimp section with a double-press action on an ordinary button, on a
\* modifier and on an on_release control
SecTaps ==
  [SecGimp EXCEPT
     !.name = "taps",
     !.double_press = [c \in {"side", "tall", "top"} |->
                         CASE c = "side" -> <<K("KEY_B")>>
                           [] c = "tall" -> <<K("KEY_Z")>>
                           [] c = "top" -> CtrlC]]

HistoryConfigs ==
  { [profiles |-> <<ProfGimp, ProfKritaEdited>>, modifier_delay |-> 1],
    [profiles |-> <<LoadProfile(SecTaps)>>, modifier_delay |-> 0] }

InitHistory ==
  /\ phase = "running"
  /\ connected = TRUE
  /\ \E cfg \in HistoryConfigs : EngineIs(Loaded(cfg))
  /\ GhostIdle
  /\ last = AdminOp("reload", FALSE)
  /\ LinkIdle

Recent(seq) ==
  IF Len(seq) > MaxHistory
    THEN SubSeq(seq, Len(seq) - MaxHistory + 1, Len(seq)) ELSE seq

\* data belongs to the control whose bytes seq holds
SameControl(seq, data) ==
  /\ seq # << >>
  /\ get_control_name_from_code(data) # << >>
  /\ seq[Len(seq)].data \in {PressByte(get_control_name_from_code(data)[1]),
                              ReleaseByte(get_control_name_from_code(data)[1])}

\* notification_handler / _read_loop: one byte through process_button_code;
\* the bytes of one control that come in a row are kept
LoggedByte(data, fast) ==
  /\ phase = "running"
  /\ connected
  /\ fast => TimeIsRead(data)
  /\ LET ci == get_control_name_from_code(data)
     IN  IF ci = << >> \/ ci[1] \in ROTARY_CONTROLS
           THEN UNCHANGED held
           ELSE IF ci[2] THEN ci[1] \notin held /\ held' = held \cup {ci[1]}
                ELSE ci[1] \in held /\ held' = held \ {ci[1]}
  /\ \E r \in {process_button_code(Self, data, fast)} :
       /\ Apply(r)
       /\ out' = r.out
       /\ history' = Recent(Append(IF SameControl(history, data) THEN history
                                   ELSE << >>,
                                   [data |-> data, fast |-> fast, out |-> r.out,
                                    mods |-> active_modifiers,
                                    stamps |-> r.double_click_first_press]))
  /\ last' = Op("byte", FALSE)
  /\ UNCHANGED <<phase, connected, track, closed, resets, transport, pc, kill_now,
                 reconnect_delay, should_retry, port_exists, waits, device,
                 inbox, arrived, handled, busy, runtime, signals>>

NextHistory == \E data \in Bytes, fast \in BOOLEAN : LoggedByte(data, fast)

SpecHistory == InitHistory /\ [][NextHistory]_vars

\* the n-th of the last four bytes processed
Nth(n) == history[Len(history) - 4 + n]

\* the last four bytes were Press, Release, Press, Release of X, the first
\* Press not within the timeout of an earlier one and the second Press
\* within the timeout (fast) or not
PressedTwice(X, fast) ==
  /\ Len(history) >= 4
  /\ Nth(1).data = PressByte(X) /\ ~Nth(1).fast
  /\ Nth(2).data = ReleaseByte(X)
  /\ Nth(3).data = PressByte(X) /\ Nth(3).fast = fast
  /\ Nth(4).data = ReleaseByte(X)

NoSyn(events) == SelectSeq(events, LAMBDA ev : ev # SYN)

\* the key-ups among the events written
UpsWritten(events) ==
  SelectSeq(events, LAMBDA ev : ev[1] = EV_KEY /\ ev[3] = 0)

\* the events of the double-press action the profile gives X
DoubleActionOf(X) == parse_action(current_profile.double_press_actions[X])

OnReleaseDouble(X) ==
  /\ X \in current_profile.on_release_controls
  /\ X \in DOMAIN current_profile.double_press_actions
  /\ X \notin modifier_buttons
  /\ Get(mapping, ReleaseByte(X), << >>) # << >>
  /\ \A m \in Nth(1).mods : <<m, X>> \notin DOMAIN modifier_mappings

\* C36: for an on_release control X with a double-press action, the first
\* Press writes nothing and starts no timestamp; its Release fires the single
\* action as a tap and starts the timestamp; a Press within the timeout
\* fires the double-press action as a complete tap and clears the timestamp,
\* and its Release writes nothing; a Press after the timeout writes nothing,
\* clears the timestamp and is deferred, its Release firing the single
\* action as a tap again.
C36_OnReleaseDoublePress ==
  \A X \in Controls \cap HOLDABLE_BUTTONS :
     /\ (PressedTwice(X, TRUE) /\ OnReleaseDouble(X))
          => /\ Nth(1).out = << >> /\ X \notin Nth(1).stamps
             /\ IsTapOf(Nth(2).out, SingleActionOf(X)) /\ X \in Nth(2).stamps
             /\ IsTapOf(Nth(3).out, DoubleActionOf(X)) /\ X \notin Nth(3).stamps
             /\ Nth(4).out = << >>
             /\ X \notin DOMAIN on_release_pending
     /\ (PressedTwice(X, FALSE) /\ OnReleaseDouble(X))
          => /\ IsTapOf(Nth(2).out, SingleActionOf(X)) /\ X \in Nth(2).stamps
             /\ Nth(3).out = << >> /\ X \notin Nth(3).stamps
             /\ IsTapOf(Nth(4).out, SingleActionOf(X)) /\ X \in Nth(4).stamps

\* top, an on_release control, was tapped and pressed again within the
\* timeout: KEY_V went down and up at the first Release, Ctrl+C went down and
\* up at the second Press, and the second Release wrote nothing
C36_Witness ==
  /\ PressedTwice("top", TRUE)
  /\ OnReleaseDouble("top")
  /\ Nth(2).out = << <<EV_KEY, 47, 1>>, SYN, <<EV_KEY, 47, 0>>, SYN >>
  /\ KeyPresses(Nth(3).out) = << <<EV_KEY, 29, 1>>, <<EV_KEY, 46, 1>> >>
  /\ Nth(4).out = << >>

\* C34: when the Release of a combo target C comes after the modifier it was
\* combined with has been released (no active modifier has a combo for C any
\* more; no switch, reload or disconnect since C's Press), it writes key-ups
\* for exactly the keys C's Press put down, the combo's keys, and no
\* key-down, and C leaves the combo tracking.
C34_ComboReleaseAnyOrder ==
  [][\A C \in Controls :
       ( /\ ReleaseOf(C)
         /\ C \in DOMAIN active_combo_events
         /\ C \in DOMAIN track
         /\ track[C].intr = "none"
         /\ \A m \in active_modifiers : <<m, C>> \notin DOMAIN modifier_mappings )
       => /\ closed'.ctl = C
          /\ closed'.up_now = track[C].keys
          /\ closed'.up_now = KeysDownIn(active_combo_events[C])
          /\ C \notin DOMAIN active_combo_events']_vars

\* side was pressed while tall was held and released after tall: the
\* Release wrote the key-up of KEY_A, the combo's key, and not those of
\* side's own Ctrl+C
C34_Witness ==
  /\ last.op = "byte"
  /\ closed.ctl = "side"
  /\ closed.keys = {30}
  /\ closed.up_now = {30}
  /\ active_modifiers = {}
  /\ held = {}
  /\ <<"tall", "side">> \in DOMAIN modifier_mappings

\* every key-down among the events is followed by a key-up of the same key
EveryDownHasUp(events) ==
  \A i \in 1..Len(events) :
     IsKeyPress(events[i]) =>
       \E j \in (i + 1)..Len(events) : events[j] = <<EV_KEY, events[i][2], 0>>

\* C35: the pulse byte of a rotary control, whether it goes through the
\* control's own mapping or through a combo with the active modifier, writes
\* a key-up after the key-down of every key within the same step, and the
\* stop byte of a rotary control writes no key-down.
C35_PulseLeavesNoKeyDown ==
  [][\A R \in Controls \cap ROTARY_CONTROLS :
       /\ ProcessByteEmitting(PressByte(R), FALSE) => EveryDownHasUp(out')
       /\ ProcessByteEmitting(ReleaseByte(R), FALSE) => KeyPresses(out') = << >>]_vars

\* the knob was turned while tall was held: KEY_Z, the key of the combo
\* tall.knob_cw, went down and up in the one step and is not down
C35_Witness ==
  /\ last.op = "byte"
  /\ active_modifiers = {"tall"}
  /\ <<"tall", "knob_cw">> \in DOMAIN modifier_mappings
  /\ out = << <<EV_KEY, 44, 1>>, <<EV_KEY, 44, 0>>, SYN >>
  /\ 44 \notin key_down

(***************************************************************************)
(* One session: control bytes only, no disconnect, switch or reload        *)
(***************************************************************************)
NextSession ==
  \E data \in Bytes, fast \in BOOLEAN :
     /\ fast => TimeIsRead(data)
     /\ ProcessByteEmitting(data, fast)

SpecSession == InitLoaded /\ [][NextSession]_vars

\* C37: within one session and with every control alternating Press and
\* Release, whenever no control is held down no key of the output device is
\* down.
C37_Quiescence == held = {} => key_down = {}

(***************************************************************************)
(* SIGHUP: the reload flag and the two loops that poll it                  *)
(***************************************************************************)
InitReload ==
  /\ phase = "running"
  /\ connected = FALSE
  /\ \E cfg \in Configs :
       \E r \in {start(Constructed(cfg.modifier_delay), cfg.profiles),
                 Loaded(cfg)} : EngineIs(r)
  /\ GhostIdle
  /\ last = Op("start", FALSE)
  /\ transport \in Transports
  /\ pc = "top"
  /\ kill_now = FALSE
  /\ reconnect_delay = InitialDelay
  /\ should_retry = TRUE
  /\ port_exists \in BOOLEAN
  /\ waits = << >>
  /\ DeviceIdle

\* what a step of the reload path leaves alone
ReloadIdle ==
  UNCHANGED <<phase, connected, held, transport, kill_now, reconnect_delay,
              should_retry, port_exists, waits, device, inbox, arrived,
              handled, busy, runtime, history>>

\* SIGHUP: the handler runs between two bytecodes of the main thread,
\* wherever the loop stands
reload_gracefully ==
  /\ pc # "stopped"
  /\ reload_config' = TRUE
  /\ signalled' = TRUE
  /\ UNCHANGED <<phase, connected, store, tables, session, ghost, transport,
                 pc, kill_now, reconnect_delay, should_retry, port_exists,
                 waits, device, inbox, arrived, handled, busy, runtime,
                 history>>

\* while not self.killer.kill_now: with the flag down (or the loop over)
ReloadLoopTop == (kill_now \/ ~reload_config) /\ LoopTop

\* if self.killer.reload_config: self.reload_config_mappings()
\* at the top of start()'s loop and in the session loop of run_connection()
ReloadRun(cfg) ==
  /\ phase = "running"
  /\ pc \in {"top", "session"}
  /\ ~kill_now
  /\ reload_config
  /\ cfg.profiles # << >> => resets < MaxResets
  /\ \E r \in {reload_config_mappings(Self, cfg.profiles, cfg.modifier_delay)} :
       Apply(r) /\ out' = r.out
  /\ last' = AdminOp(IF cfg.profiles = << >> THEN "reload_rejected" ELSE "reload",
                    FALSE)
  /\ track' = IF cfg.profiles = << >> THEN track ELSE Interrupt(track, "reload")
  /\ closed' = NoCycle
  /\ resets' = IF cfg.profiles = << >> THEN resets ELSE resets + 1
  /\ pc' = IF pc = "top" THEN "reloaded_top" ELSE "reloaded_session"
  /\ signalled' = FALSE
  /\ UNCHANGED reload_config
  /\ ReloadIdle

\* self.killer.reload_config = False, and on with the loop's iteration
ReloadClear ==
  /\ pc \in {"reloaded_top", "reloaded_session"}
  /\ reload_config' = FALSE
  /\ pc' = IF pc = "reloaded_session" THEN "session"
           ELSE IF transport = "usb" /\ ~port_exists THEN "poll"
           ELSE "connecting"
  /\ UNCHANGED <<store, tables, session, ghost, signalled>>
  /\ ReloadIdle

NextReload ==
  \/ ReloadLoopTop
  \/ PortWait
  \/ \E outcome \in AttemptOutcomes(transport) : Attempt(outcome)
  \/ \E how \in SessionEnds : SessionEnd(how)
  \/ AfterReturn
  \/ BackoffDone
  \/ Shutdown
  \/ PortChange
  \/ reload_gracefully
  \/ \E cfg \in Configs \cup {EmptyConfig} : ReloadRun(cfg)
  \/ ReloadClear

\* the event loop keeps running the driver's own steps; both loops come back
\* to their reload check (the session loop every 0.5 s)
SpecReload ==
  /\ InitReload
  /\ [][NextReload]_vars
  /\ WF_vars(ReloadLoopTop)
  /\ WF_vars(PortWait)
  /\ WF_vars(\E outcome \in AttemptOutcomes(transport) : Attempt(outcome))
  /\ WF_vars(SessionEnd("killed"))
  /\ WF_vars(AfterReturn)
  /\ WF_vars(BackoffDone)
  /\ WF_vars(\E cfg \in Configs \cup {EmptyConfig} : ReloadRun(cfg))
  /\ WF_vars(ReloadClear)

\* C38: every reload signal that reaches a driver which keeps running is
\* eventually followed by a reload that runs after the signal arrived, also
\* when the signal arrives while a reload is being executed and the loop has
\* not yet cleared the flag.
C38_NoReloadSignalLost ==
  signalled ~> (~signalled \/ kill_now \/ pc = "stopped")

(***************************************************************************)
(* The chunks of a haptic message on the wire of a BLE session             *)
(***************************************************************************)
\* the haptic chunks task has written before position i of the wire
ChunksBefore(task, i) ==
  Len(SelectSeq(SubSeq(wire, 1, i - 1),
                LAMBDA e : e.by = task /\ e.of # None))

\* position i of the wire holds chunk n of its message, n counted from 0
ChunkIndex(i) == ChunksBefore(wire[i].by, i) % 5

\* C39: over BLE the five chunks of one haptic message are written
\* contiguously and in order: every chunk but the first comes right after the
\* previous chunk of the same message, built from the same profile, also when
\* the poller reports a profile change during the connect handshake.
C39_ChunksContiguous ==
  transport = "ble" =>
    \A i \in 1..Len(wire) :
       wire[i].of # None =>
         /\ \E q \in 1..Len(profiles) :
              /\ profiles[q].name = wire[i].of
              /\ wire[i].data =
                   build_config_commands(ProfileHaptic(profiles[q]))[ChunkIndex(i) + 1]
         /\ ChunkIndex(i) > 0 =>
              /\ wire[i - 1].by = wire[i].by
              /\ wire[i - 1].of = wire[i].of

(***************************************************************************)
(* The haptic state of the device against the current profile, with the    *)
(* configuration reloaded where the loops poll the reload flag             *)
(***************************************************************************)
\* reload_config_mappings, called at the top of start()'s loop and in the
\* session loop of run_connection(); it writes nothing to the device
HsReload(cfg) ==
  /\ pc \in {"connecting", "session"}
  /\ Reload(cfg)

NextSync ==
  \/ NextHandshake
  \/ \E cfg \in Configs \cup {EmptyConfig} : HsReload(cfg)

SpecSync == InitHandshake /\ [][NextSync]_vars

\* the haptic writes of this session, in order
HapticWire == SelectSeq(wire, LAMBDA e : e.of # None)

\* the writes one haptic message takes on this transport
WritesPerMessage == IF transport = "ble" THEN 5 ELSE 1

\* the bytes of the haptic message transmitted last in this session
LastTransmitted ==
  Concat([i \in 1..WritesPerMessage |->
            HapticWire[Len(HapticWire) - WritesPerMessage + i].data])

\* C40: whenever the session is Ready and no haptic transmission is in
\* progress, the haptic message transmitted last in this session is the
\* encoding of the current profile's haptic configuration.
C40_HapticFollowsProfile ==
  (pc = "session" /\ sending = EmptyDict) =>
    /\ Len(HapticWire) >= WritesPerMessage
    /\ LastTransmitted = build_config_message_usb(ProfileHaptic(current_profile))

====
